---- MODULE Spec2Model ----
(***************************************************************************)
(* BookRise-Obsidian: the highlight synchronizer of the plugin (main.ts),  *)
(* and the API client (BookriseClient.ts): request(), chat() and its       *)
(* streaming decoder, in the two revisions the repository holds.           *)
(*                                                                         *)
(* Strings are sequences of one-character strings; the fixed fragments the *)
(* code writes between them ("---\n", "title: ", ".md", ...) are single    *)
(* tokens of such a sequence.  String operations (replace, trim, split,    *)
(* substring) are computed on the characters.                              *)
(***************************************************************************)
EXTENDS Integers, Sequences, FiniteSets, TLC

\* ------------------------------------------------------------ bounds
MaxBooks == 2
MaxHl == 2
MaxRuns == 2

\* ------------------------------------------------- program constants
IdPrefixLen == 8
FileTitleWords == 5
FileNoteWords == 4
FmTitleWords == 7
FmNoteWords == 6

\* ------------------------------------------------- string operations
NL == "\n"
Whitespace == {" ", NL, "\r", "\t"}
ForbiddenChars == {"/", "\\", ":", "*", "?", "\"", "<", ">", "|"}
AlnumDashUnderscore == {"a", "b", "c", "w", "x", "y", "A", "B", "X", "Y", "1", "2", "-", "_"}

\* s.replace(/[set]/g, r): every character of the set, one by one
ReplaceChars(s, set, r) == [i \in 1..Len(s) |-> IF s[i] \in set THEN r ELSE s[i]]

RECURSIVE DropLeadingWs(_)
DropLeadingWs(s) ==
    IF s # <<>> /\ Head(s) \in Whitespace THEN DropLeadingWs(Tail(s)) ELSE s

\* s.replace(/\s+/g, r): every maximal run of whitespace becomes one r
RECURSIVE ReplaceWsRuns(_, _)
ReplaceWsRuns(s, r) ==
    IF s = <<>> THEN <<>>
    ELSE IF Head(s) \in Whitespace
         THEN <<r>> \o ReplaceWsRuns(DropLeadingWs(Tail(s)), r)
         ELSE <<Head(s)>> \o ReplaceWsRuns(Tail(s), r)

\* s.replace(/\n/g, r): r is a sequence put in place of every newline
RECURSIVE ReplaceNewlines(_, _)
ReplaceNewlines(s, r) ==
    IF s = <<>> THEN <<>>
    ELSE (IF Head(s) = NL THEN r ELSE <<Head(s)>>) \o ReplaceNewlines(Tail(s), r)

\* s.replace(/\/\//g, '/'): one left-to-right pass over non-overlapping "//"
RECURSIVE ReplaceDoubleSlash(_)
ReplaceDoubleSlash(s) ==
    IF Len(s) < 2 THEN s
    ELSE IF s[1] = "/" /\ s[2] = "/"
         THEN <<"/">> \o ReplaceDoubleSlash(SubSeq(s, 3, Len(s)))
         ELSE <<s[1]>> \o ReplaceDoubleSlash(Tail(s))

RECURSIVE DropTrailingWs(_)
DropTrailingWs(s) ==
    IF s # <<>> /\ s[Len(s)] \in Whitespace
    THEN DropTrailingWs(SubSeq(s, 1, Len(s) - 1)) ELSE s

\* s.trim()
Trim(s) == DropTrailingWs(DropLeadingWs(s))

\* s.split(' ').slice(0, n).join(' '): the text before the n-th blank
RECURSIVE TakeWords(_, _)
TakeWords(s, n) ==
    IF s = <<>> THEN <<>>
    ELSE IF Head(s) = " "
         THEN (IF n = 1 THEN <<>> ELSE <<" ">> \o TakeWords(Tail(s), n - 1))
         ELSE <<Head(s)>> \o TakeWords(Tail(s), n)

\* s.split(' ').length
RECURSIVE CountBlanks(_)
CountBlanks(s) ==
    IF s = <<>> THEN 0 ELSE (IF Head(s) = " " THEN 1 ELSE 0) + CountBlanks(Tail(s))
SplitLength(s) == CountBlanks(s) + 1

\* s.substring(0, n)
Substring0(s, n) == SubSeq(s, 1, IF Len(s) < n THEN Len(s) ELSE n)

\* s.toLowerCase() on the letters of the model's alphabet
LowerOf(c) ==
    CASE c = "A" -> "a" [] c = "B" -> "b" [] c = "X" -> "x" [] c = "Y" -> "y"
      [] OTHER -> c
ToLowerCase(s) == [i \in 1..Len(s) |-> LowerOf(s[i])]

\* arr.join(sep) for an array of strings
RECURSIVE Join(_, _)
Join(arr, sep) ==
    IF arr = <<>> THEN <<>>
    ELSE IF Len(arr) = 1 THEN arr[1]
    ELSE arr[1] \o sep \o Join(Tail(arr), sep)

\* Array.from(new Set(arr)): first occurrences, in insertion order
RECURSIVE Dedupe(_)
Dedupe(arr) ==
    IF arr = <<>> THEN <<>>
    ELSE LET init == Dedupe(SubSeq(arr, 1, Len(arr) - 1))
             last == arr[Len(arr)]
         IN IF \E i \in 1..Len(init) : init[i] = last THEN init ELSE Append(init, last)

Range(s) == {s[i] : i \in 1..Len(s)}

\* the sequences over S without repetition, of length at most n
RECURSIVE SeqsNoRep(_, _)
SeqsNoRep(S, n) ==
    IF n = 0 THEN {<<>>}
    ELSE LET shorter == SeqsNoRep(S, n - 1)
         IN shorter \cup
            {Append(q, e) : <<q, e>> \in {p \in shorter \X S : p[2] \notin Range(p[1])}}

\* ------------------------------------------------------ remote data
\* An optional string is <<>> when the field is absent (or ""): the code
\* tests these fields by truthiness only.  hl.id also has has_id, since
\* sanitizeFileName(undefined) throws while sanitizeFileName("") does not.
\* page is 0 when absent; percent_read is <<>> when undefined.
Str_b1 == <<"b", "1">>
Str_b2 == <<"b", "2">>
Str_b3 == <<"b", "3">>
BookIds == {Str_b1, Str_b2, Str_b3}

BookCatalog ==
    [k \in {"B1", "B2", "B3"} |->
       CASE k = "B1" -> [id |-> Str_b1, title |-> <<"A">>, author |-> <<"X", " ", "Y">>,
                         isbn |-> <<>>, tags |-> <<>>, percent_read |-> <<>>]
         [] k = "B2" -> [id |-> Str_b2, title |-> <<"A", ":", "B">>, author |-> <<>>,
                         isbn |-> <<"1", "2">>, tags |-> << <<"x", ":", "y">>, <<"BookRise">> >>,
                         percent_read |-> <<"0.5">>]
         [] k = "B3" -> [id |-> Str_b3, title |-> <<"A", "/", "B">>, author |-> <<>>,
                         isbn |-> <<>>, tags |-> <<>>, percent_read |-> <<>>]]
BookKeys == DOMAIN BookCatalog

Id8(c) == <<c, c, c, c, c, c, c, c>>

HlCatalog ==
    [k \in {"H1", "H2", "H3", "H4", "H5", "H6"} |->
       CASE k = "H1" -> [has_id |-> TRUE, id |-> Id8("a") \o <<"1">>, book_id |-> Str_b1,
                         text_content |-> <<"w", " ", "x">>, note |-> <<"y">>, page |-> 3,
                         location |-> <<"1", "2">>, color |-> <<"Y">>, created_at |-> <<"t2">>]
         [] k = "H2" -> [has_id |-> TRUE, id |-> Id8("a") \o <<"2">>, book_id |-> Str_b1,
                         text_content |-> <<"w", " ", "x">>, note |-> <<>>, page |-> 0,
                         location |-> <<>>, color |-> <<>>, created_at |-> <<"t1">>]
         [] k = "H3" -> [has_id |-> FALSE, id |-> <<>>, book_id |-> Str_b1,
                         text_content |-> <<"c">>, note |-> <<>>, page |-> 0,
                         location |-> <<>>, color |-> <<>>, created_at |-> <<>>]
         [] k = "H4" -> [has_id |-> TRUE, id |-> Id8("b"), book_id |-> Str_b2,
                         text_content |-> <<>>, note |-> <<"y", NL, "y">>, page |-> 0,
                         location |-> <<>>, color |-> <<>>, created_at |-> <<>>]
         [] k = "H5" -> [has_id |-> TRUE, id |-> Id8("c"), book_id |-> Str_b2,
                         text_content |-> <<>>, note |-> <<>>, page |-> 0,
                         location |-> <<>>, color |-> <<"X", " ", "Y">>, created_at |-> <<>>]
         [] k = "H6" -> [has_id |-> TRUE, id |-> Id8("1"), book_id |-> Str_b3,
                         text_content |-> <<"a", " ", "a", " ", "a", " ", "a", " ", "a", " ",
                                            "a", " ", "a", " ", "b">>,
                         note |-> <<>>, page |-> 0,
                         location |-> <<>>, color |-> <<>>, created_at |-> <<>>]]
HlKeys == DOMAIN HlCatalog
HlKeysOf(bookKey) == {k \in HlKeys : HlCatalog[k].book_id = BookCatalog[bookKey].id}

\* ---------------------------------------------- note generation (main.ts)
sanitizeFileName(name) == ReplaceWsRuns(ReplaceChars(name, ForbiddenChars, "-"), " ")

ColonToDash(s) == ReplaceChars(s, {":"}, "-")

authorTagOf(author) ==
    [i \in 1..Len(author) |-> IF author[i] \in AlnumDashUnderscore THEN author[i] ELSE "_"]

QuotedTag(t) == <<"\"">> \o ColonToDash(t) \o <<"\"">>

generateBookFrontmatter(book) ==
    LET pluginAddedTags == << <<"BookRise">> >> \o
            (IF book.author # <<>> THEN << <<"author/">> \o authorTagOf(book.author) >> ELSE <<>>)
        allTags == Dedupe(book.tags \o pluginAddedTags)
    IN  <<"---\n">>
        \o <<"title: \"">> \o ColonToDash(book.title) \o <<"\"\n">>
        \o <<"id: ">> \o book.id \o <<NL>>
        \o (IF book.author # <<>> THEN <<"author: \"">> \o book.author \o <<"\"\n">> ELSE <<>>)
        \o (IF book.isbn # <<>> THEN <<"isbn: \"">> \o book.isbn \o <<"\"\n">> ELSE <<>>)
        \o (IF book.percent_read # <<>>
            THEN <<"percent_read: ">> \o book.percent_read \o <<NL>> ELSE <<>>)
        \o (IF Len(allTags) > 0
            THEN <<"tags: [">>
                 \o Join([i \in 1..Len(allTags) |-> QuotedTag(allTags[i])], <<",", " ">>)
                 \o <<"]\n">>
            ELSE <<>>)
        \o <<"source: BookRise\n">>
        \o <<"---\n\n">>

colorTagOf(color) == ReplaceWsRuns(ToLowerCase(color), "_")

generateHighlightNoteFrontmatter(hl, book, bookSanitizedFileNameForLink) ==
    LET noteTitle ==
            IF hl.text_content # <<>>
            THEN TakeWords(Trim(hl.text_content), FmTitleWords)
                 \o (IF SplitLength(Trim(hl.text_content)) > FmTitleWords
                     THEN <<".", ".", ".">> ELSE <<>>)
            ELSE IF hl.note # <<>>
            THEN <<"N", "o", "t", "e", ":", " ">> \o TakeWords(Trim(hl.note), FmNoteWords)
                 \o (IF SplitLength(Trim(hl.note)) > FmNoteWords
                     THEN <<".", ".", ".">> ELSE <<>>)
            ELSE <<"BookRise", " ", "Highlight">>
        tags == << <<"BookRise">>, <<"BookRiseHighlight">> >>
                \o (IF book.author # <<>>
                    THEN << <<"author/">> \o authorTagOf(book.author) >> ELSE <<>>)
                \o (IF hl.color # <<>>
                    THEN << <<"hlcolor/">> \o colorTagOf(hl.color) >> ELSE <<>>)
    IN  <<"---\n">>
        \o <<"title: \"">> \o sanitizeFileName(ColonToDash(noteTitle)) \o <<"\"\n">>
        \o <<"book: \"[[">> \o bookSanitizedFileNameForLink \o <<"]]\"\n">>
        \o <<"book_id: ">> \o book.id \o <<NL>>
        \o <<"highlight_id: ">> \o (IF hl.has_id THEN hl.id ELSE <<"undefined">>) \o <<NL>>
        \o (IF hl.color # <<>> THEN <<"color: ">> \o hl.color \o <<NL>> ELSE <<>>)
        \o (IF hl.page # 0 THEN <<"page: ", ToString(hl.page), NL>> ELSE <<>>)
        \o (IF hl.location # <<>>
            THEN <<"location: \"">> \o hl.location \o <<"\"\n">> ELSE <<>>)
        \o (IF hl.created_at # <<>>
            THEN <<"highlight_created_at: ">> \o hl.created_at \o <<NL>> ELSE <<>>)
        \o <<"tags: [">>
        \o Join([i \in 1..Len(tags) |-> QuotedTag(tags[i])], <<",", " ">>)
        \o <<"]\n">>
        \o <<"---\n\n">>

\* randomId stands for Math.random().toString(36).substring(2, 10)
formatSingleHighlightAsListItem(hl, randomId) ==
    LET blockId == IF hl.has_id /\ hl.id # <<>> THEN Substring0(hl.id, IdPrefixLen)
                   ELSE randomId
        metadataParts ==
            (IF hl.page # 0 THEN << <<"p.", " ", ToString(hl.page)>> >> ELSE <<>>)
            \o (IF hl.location # <<>> THEN << <<"loc.", " ">> \o hl.location >> ELSE <<>>)
        metadataString ==
            IF Len(metadataParts) > 0
            THEN <<" ", "(">> \o Join(metadataParts, <<",", " ">>) \o <<")">>
            ELSE <<>>
        colorTagString ==
            IF hl.color # <<>> THEN <<" ", "#hlcolor/">> \o colorTagOf(hl.color) ELSE <<>>
        primaryLineContent ==
            IF hl.text_content # <<>>
            THEN ReplaceNewlines(hl.text_content, <<NL, " ", " ">>)
            ELSE IF hl.note # <<>>
            THEN <<"**Note:**", " ">> \o ReplaceNewlines(hl.note, <<NL, " ", " ">>)
            ELSE <<>>
        subNoteContent ==
            IF hl.text_content # <<>> /\ hl.note # <<>>
            THEN <<" ", " ", "-", " ", "**Note:**", " ">>
                 \o ReplaceNewlines(hl.note, <<NL, " ", " ", " ", " ">>) \o <<NL>>
            ELSE <<>>
        trimmed == Trim(primaryLineContent)
        finalPrimaryLine ==
            (IF Len(trimmed) = 0 /\ (Len(metadataString) > 0 \/ Len(colorTagString) > 0)
             THEN <<" ">> ELSE trimmed)
            \o metadataString \o colorTagString
    IN  <<"-", " ">> \o Trim(finalPrimaryLine) \o <<" ", "^">> \o blockId \o <<NL>>
        \o subNoteContent
        \o <<NL>>

formatSingleHighlightContent(hl) ==
    (IF hl.text_content # <<>> THEN hl.text_content \o <<NL, NL>> ELSE <<>>)
    \o (IF hl.note # <<>> THEN <<"**Note:**", NL>> \o hl.note \o <<NL, NL>> ELSE <<>>)
    \o (IF hl.text_content = <<>> /\ hl.note = <<>>
        THEN <<"(This highlight has no text or note content from BookRise.)\n">>
        ELSE <<>>)

\* lines 431-441 and 449 of syncBookHighlights, for one highlight
noteTitlePrefixOf(hl) ==
    sanitizeFileName(
        IF hl.text_content # <<>> THEN TakeWords(Trim(hl.text_content), FileTitleWords)
        ELSE IF hl.note # <<>>
        THEN <<"N", "o", "t", "e", " ", "-", " ">> \o TakeWords(Trim(hl.note), FileNoteWords)
        ELSE <<"Highlight">>)

noteFileNameOf(hl) ==
    noteTitlePrefixOf(hl) \o <<" ", "(">>
    \o Substring0(sanitizeFileName(hl.id), IdPrefixLen) \o <<")", ".md">>

\* name.replace(/\.md$/, '')
StripMd(name) ==
    IF name # <<>> /\ name[Len(name)] = ".md" THEN SubSeq(name, 1, Len(name) - 1) ELSE name

highlightLinkOf(hl) ==
    <<"-", " ", "[[_Highlights/">> \o StripMd(noteFileNameOf(hl)) \o <<"|">>
    \o noteTitlePrefixOf(hl) \o <<" ", "(">>
    \o (IF hl.color # <<>> THEN hl.color ELSE <<"highlight">>) \o <<")", "]]">>

\* `${a}/${b}`.replace(/\/\//g, '/')
PathJoin(a, b) == ReplaceDoubleSlash(a \o <<"/">> \o b)

bookFolderPathOf(syncFolder, book) == PathJoin(syncFolder, sanitizeFileName(book.title))
mainBookFilePathOf(syncFolder, book) ==
    PathJoin(bookFolderPathOf(syncFolder, book), sanitizeFileName(book.title) \o <<".md">>)
\* line 421: no replace of "//" here
highlightsFolderOf(bookFolderPath) == bookFolderPath \o <<"/", "_Highlights">>
noteFilePathOf(highlightsFolder, hl) == PathJoin(highlightsFolder, noteFileNameOf(hl))

\* ------------------------------------------------- the vault (file store)
\* A vault maps the paths that exist to [kind, content]; a folder's content
\* is <<>>.
FolderEntry == [kind |-> "folder", content |-> <<>>]
FileEntry(content) == [kind |-> "file", content |-> content]
\* a write that clears the folder it writes to
VaultPutClearing(v, path, entry) ==
    [q \in {x \in DOMAIN v : Len(x) < Len(path)} \cup {path} |->
        IF q = path THEN entry ELSE v[q]]
VaultPut(v, path, entry) ==
    [q \in DOMAIN v \cup {path} |-> IF q = path THEN entry ELSE v[q]]
IsUnder(folder, path) ==
    /\ Len(path) > Len(folder) + 1
    /\ SubSeq(path, 1, Len(folder) + 1) = folder \o <<"/">>
\* vault.createFolder and vault.create throw for a path below a file
BelowFile(v, path) == \E q \in DOMAIN v : v[q].kind = "file" /\ IsUnder(q, path)

\* error.message.includes("Folder already exists"), for the message
\* `${folderPath} exists but is a file, not a folder.`
AlreadyExistsText == "Folder already exists"
NotAFolderMessage(folderPath) == folderPath \o <<" exists but is a file, not a folder.">>
Includes(message, text) == \E i \in 1..Len(message) : message[i] = text

\* ensureFolderExists: creates the folder when nothing is at the path and
\* throws when a file is there; its catch rethrows every error whose message
\* does not include "Folder already exists". The message of the error thrown
\* for a file holds the folder path, so for a path with that text in it the
\* error is swallowed and the call returns as if the folder were there. The
\* error of vault.createFolder for a path below a file is rethrown.
ensureFolderExists(v, folderPath) ==
    IF folderPath \notin DOMAIN v
    THEN IF BelowFile(v, folderPath)
         THEN [ok |-> FALSE, vault |-> v]
         ELSE [ok |-> TRUE, vault |-> VaultPut(v, folderPath, FolderEntry)]
    ELSE IF v[folderPath].kind = "folder"
    THEN [ok |-> TRUE, vault |-> v]
    ELSE IF Includes(NotAFolderMessage(folderPath), AlreadyExistsText)
    THEN [ok |-> TRUE, vault |-> v]
    ELSE [ok |-> FALSE, vault |-> v]

\* a createOrUpdateFile that appends to the file it finds
createOrUpdateFileAppending(v, filePath, content) ==
    IF filePath \in DOMAIN v /\ v[filePath].kind = "file"
    THEN [ok |-> TRUE, vault |-> VaultPut(v, filePath, FileEntry(v[filePath].content \o content))]
    ELSE IF filePath \in DOMAIN v \/ BelowFile(v, filePath)
    THEN [ok |-> FALSE, vault |-> v]
    ELSE [ok |-> TRUE, vault |-> VaultPut(v, filePath, FileEntry(content))]

\* createOrUpdateFile: vault.modify on an existing file, vault.create
\* otherwise; vault.create throws when the path is taken (by a folder)
createOrUpdateFile(v, filePath, content) ==
    IF filePath \in DOMAIN v /\ v[filePath].kind = "file"
    THEN [ok |-> TRUE, vault |-> VaultPut(v, filePath, FileEntry(content))]
    ELSE IF filePath \in DOMAIN v \/ BelowFile(v, filePath)
    THEN [ok |-> FALSE, vault |-> v]
    ELSE [ok |-> TRUE, vault |-> VaultPut(v, filePath, FileEntry(content))]

\* ------------------------------------------------------------- state
VARIABLES
    settings,       \* [bookriseSyncFolder, createNotePerHighlight]
    client,         \* TRUE when this.client is a BookriseClient
    remoteBooks,    \* what GET /api/books answers: [status, list of book keys]
    remoteHl,       \* what GET /api/highlights answers per book: [ok, isNull, list]
    vault,
    pc,             \* where syncAllHighlights stands (at which await)
    books,          \* the fetched list (keys of BookCatalog)
    bookIdx,        \* the for-loop's position in books
    successCount,
    errorCount,
    cur,            \* locals of the running syncBookHighlights
    hist,           \* history: runs, snapshot, attempted, written, lastBook, report,
                    \* the sync folders and mode flags the run has read, settings updates
    req,            \* a call of BookriseClient.request
    chat,           \* a call of BookriseClient.chat
    built,          \* a title and the names and paths syncBookHighlights builds of it
    writers,        \* the createOrUpdateFile invocations of overlapping runs
    wire            \* a stream text, its division into reads, and what is decoded of it

syncVars == <<settings, client, remoteBooks, remoteHl, vault, pc, books, bookIdx,
              successCount, errorCount, cur, hist>>
vars == <<syncVars, req, chat, built, writers, wire>>

SyncFolder == <<"S">>
\* a sync folder named as the text the catch of ensureFolderExists looks for
NamedAlreadyExists == <<AlreadyExistsText>>
SyncFolders == {SyncFolder, NamedAlreadyExists}
RandomIds == {<<"r", "1">>, <<"r", "2">>}

NoCur == [bookFolderPath |-> <<>>, highlights |-> <<>>, highlightsNull |-> FALSE,
          mainBookFilePath |-> <<>>,
          mainBookContent |-> <<>>, highlightLinks |-> <<>>, hlIdx |-> 0]
NoBook == [key |-> "none", outcome |-> "none", perHighlight |-> FALSE,
           highlights |-> <<>>, folder |-> <<>>, mainPath |-> <<>>,
           before |-> <<>> :> FolderEntry]
NoReport == [kind |-> "none", success |-> 0, failed |-> 0, books |-> <<>>,
             attempted |-> <<>>]
NoWire == [state |-> "none", impl |-> "fetch", text |-> <<>>, cut |-> 0]
\* the sync command may be triggered while a run awaits (lines 286-292 test
\* the client only): up to MaxOverlap runs are under way at a time
MaxOverlap == 2
Runs == 1..MaxOverlap
NoWriter == [pc |-> "idle", n |-> 0, path |-> <<>>, content |-> <<>>]
NoWriters == [r \in Runs |-> NoWriter]
NoPaths == [state |-> "none", title |-> <<>>, bookFolderName |-> <<>>,
            bookFolderPath |-> <<>>, mainBookFilePath |-> <<>>,
            highlightsFolder |-> <<>>, noteFilePath |-> <<>>]

\* vaults a run may find (<<>> is the vault's root): empty; a file at the
\* path of the sync folder; a file where book A's folder goes; a folder where
\* the main note of A-B goes; an earlier main note of A with local edits; a
\* folder where a highlight note of A goes
InitialVaults(syncFolder) ==
    IF syncFolder = NamedAlreadyExists
    THEN {(<<>> :> FolderEntry) @@ (NamedAlreadyExists :> FileEntry(<<"user file">>))}
    ELSE
    LET root == (<<>> :> FolderEntry) @@ (SyncFolder :> FolderEntry)
    IN { <<>> :> FolderEntry,
         (<<>> :> FolderEntry) @@ (SyncFolder :> FileEntry(<<"user file">>)),
         root @@ (<<"S", "/", "A">> :> FileEntry(<<"user file">>)),
         root @@ (<<"S", "/", "A", "-", "B">> :> FolderEntry)
              @@ (<<"S", "/", "A", "-", "B", "/", "A", "-", "B", ".md">> :> FolderEntry),
         root @@ (<<"S", "/", "A">> :> FolderEntry)
              @@ (<<"S", "/", "A", "/", "A", ".md">> :> FileEntry(<<"user edit">>)),
         root @@ (<<"S", "/", "A">> :> FolderEntry)
              @@ (highlightsFolderOf(<<"S", "/", "A">>) :> FolderEntry)
              @@ (noteFilePathOf(highlightsFolderOf(<<"S", "/", "A">>), HlCatalog["H2"])
                    :> FolderEntry) }

HlAnswers(bookKey) ==
    {[ok |-> TRUE, isNull |-> FALSE, list |-> l] : l \in SeqsNoRep(HlKeysOf(bookKey), MaxHl)}
    \cup {[ok |-> TRUE, isNull |-> TRUE, list |-> <<>>],
          [ok |-> FALSE, isNull |-> FALSE, list |-> <<>>]}

BooksAnswers ==
    {[status |-> "ok", list |-> l] : l \in SeqsNoRep(BookKeys, MaxBooks)}
    \cup {[status |-> "null", list |-> <<>>], [status |-> "error", list |-> <<>>]}

SyncInit ==
    /\ settings \in [bookriseSyncFolder : SyncFolders, createNotePerHighlight : BOOLEAN]
    /\ client = TRUE
    /\ remoteBooks \in BooksAnswers
    /\ remoteHl \in {f \in [BookKeys -> UNION {HlAnswers(k) : k \in BookKeys}] :
                       \A k \in BookKeys :
                          IF k \in Range(remoteBooks.list) THEN f[k] \in HlAnswers(k)
                          ELSE f[k] = [ok |-> TRUE, isNull |-> FALSE, list |-> <<>>]}
    /\ vault \in InitialVaults(settings.bookriseSyncFolder)
    /\ pc = "idle"
    /\ books = <<>>
    /\ bookIdx = 0
    /\ successCount = 0
    /\ errorCount = 0
    /\ cur = NoCur
    /\ hist = [runs |-> 0, snapshot |-> vault, attempted |-> <<>>, written |-> <<>>,
               lastBook |-> NoBook, report |-> NoReport,
               folders |-> {}, modes |-> {}, updates |-> 0]

\* ------------------------------------------------- syncAllHighlights
CurBook == BookCatalog[books[bookIdx]]
Hl(i) == HlCatalog[cur.highlights[i]]

\* the run returns or its outer catch swallowed an error
EndRun(kind) ==
    /\ pc' = "idle"
    /\ hist' = [hist EXCEPT !.runs = @ + 1,
                            !.report = [kind |-> kind, success |-> successCount,
                                        failed |-> errorCount, books |-> books,
                                        attempted |-> hist.attempted]]

\* a catch that lets the error of one book end the loop
BookFailedAborting(h) ==
    /\ errorCount' = errorCount + 1
    /\ bookIdx' = Len(books) + 1
    /\ pc' = "loop"
    /\ cur' = NoCur
    /\ hist' = [h EXCEPT !.lastBook.outcome = "failed"]
    /\ UNCHANGED successCount

\* the catch of the for-loop: the book's error is counted, the loop goes on
\* (h is the history so far)
BookFailed(h) ==
    /\ errorCount' = errorCount + 1
    /\ bookIdx' = bookIdx + 1
    /\ pc' = "loop"
    /\ cur' = NoCur
    /\ hist' = [h EXCEPT !.lastBook.outcome = "failed"]
    /\ UNCHANGED successCount

\* syncBookHighlights returned: successCount++ and the next iteration
BookDone(h) ==
    /\ successCount' = successCount + 1
    /\ bookIdx' = bookIdx + 1
    /\ pc' = "loop"
    /\ cur' = NoCur
    /\ hist' = [h EXCEPT !.lastBook.outcome = "ok"]
    /\ UNCHANGED errorCount

\* the command starts a run: GET /api/books is sent and answered
SyncStart ==
    /\ pc = "idle"
    /\ hist.runs < MaxRuns
    /\ client
    /\ pc' = "listBooks"
    /\ books' = remoteBooks.list
    /\ bookIdx' = 0
    /\ successCount' = 0
    /\ errorCount' = 0
    /\ cur' = NoCur
    /\ hist' = [hist EXCEPT !.snapshot = vault, !.attempted = <<>>, !.written = <<>>,
                            !.lastBook = NoBook, !.report = NoReport,
                            !.folders = {}, !.modes = {}]
    /\ UNCHANGED <<wire, writers, built, req, chat, settings, client, remoteBooks, remoteHl, vault>>

\* a test that lets an empty list of books through
NoBooksOnlyNull(status, list) == status = "null"

\* !books || books.length === 0
NoBooks(status, list) == status = "null" \/ Len(list) = 0

\* listBooks threw, or returned nothing, or the root folder is ensured
SyncEnsureRoot ==
    /\ pc = "listBooks"
    /\ IF remoteBooks.status = "error"
       THEN EndRun("error") /\ UNCHANGED <<vault, bookIdx>>
       ELSE IF NoBooks(remoteBooks.status, books)
       THEN EndRun("nobooks") /\ UNCHANGED <<vault, bookIdx>>
       ELSE LET r == ensureFolderExists(vault, settings.bookriseSyncFolder)
            IN IF r.ok
               THEN /\ vault' = r.vault
                    /\ pc' = "loop"
                    /\ bookIdx' = 1
                    /\ hist' = [hist EXCEPT !.folders = @ \cup {settings.bookriseSyncFolder}]
               ELSE EndRun("error") /\ UNCHANGED <<vault, bookIdx>>
    /\ UNCHANGED <<wire, writers, built, req, chat, settings, client, remoteBooks, remoteHl, books, successCount,
                   errorCount, cur>>

\* the loop calls syncBookHighlights(book), which ensures the book's folder
BookStart ==
    /\ pc = "loop"
    /\ bookIdx <= Len(books)
    /\ LET bookFolderPath == bookFolderPathOf(settings.bookriseSyncFolder, CurBook)
           r == ensureFolderExists(vault, bookFolderPath)
           started == [hist EXCEPT !.attempted = Append(@, books[bookIdx]),
                                   !.written = <<>>,
                                   !.lastBook = [NoBook EXCEPT !.key = books[bookIdx],
                                                               !.outcome = "running",
                                                               !.folder = bookFolderPath,
                                                               !.before = vault]]
           read == [started EXCEPT !.folders = @ \cup {settings.bookriseSyncFolder}]
       IN IF ~client
          THEN BookDone(started) /\ UNCHANGED vault
          ELSE IF r.ok
          THEN /\ vault' = r.vault
               /\ cur' = [NoCur EXCEPT !.bookFolderPath = bookFolderPath]
               /\ pc' = "listHighlights"
               /\ hist' = read
               /\ UNCHANGED <<bookIdx, successCount, errorCount>>
          ELSE BookFailed(read) /\ UNCHANGED vault
    /\ UNCHANGED <<wire, writers, built, req, chat, settings, client, remoteBooks, remoteHl, books>>

\* GET /api/highlights?book_id= is sent and answered; this.client is read
\* again here, and the call on an undefined client throws a TypeError
BookListHighlights ==
    /\ pc = "listHighlights"
    /\ IF ~client
       THEN BookFailed(hist)
       ELSE IF remoteHl[books[bookIdx]].ok
       THEN /\ cur' = [cur EXCEPT !.highlights = remoteHl[books[bookIdx]].list,
                                   !.highlightsNull = remoteHl[books[bookIdx]].isNull]
            /\ pc' = "gotHighlights"
            /\ UNCHANGED <<bookIdx, successCount, errorCount, hist>>
       ELSE BookFailed(hist)
    /\ UNCHANGED <<wire, writers, built, req, chat, settings, client, remoteBooks, remoteHl, vault, books>>

\* one write of the book's log
Logged(h, path, content) ==
    [h EXCEPT !.written = Append(@, [path |-> path, content |-> content])]

\* a sync that skips the file of a book without highlights
WriteAndFinishSkippingEmpty(path, content, perHighlight) ==
    LET w == createOrUpdateFile(vault, path, content)
        h == [hist EXCEPT !.lastBook.perHighlight = perHighlight,
                          !.lastBook.highlights = cur.highlights,
                          !.lastBook.mainPath = path,
                          !.modes = @ \cup {perHighlight}]
    IN IF cur.highlights = <<>>
       THEN UNCHANGED vault /\ BookDone(h)
       ELSE IF w.ok
       THEN vault' = w.vault /\ BookDone(Logged(h, path, content))
       ELSE UNCHANGED vault /\ BookFailed(h)

\* createOrUpdateFile(path, content) as the last statement of the book's sync
WriteAndFinish(path, content, perHighlight) ==
    LET w == createOrUpdateFile(vault, path, content)
        h == [hist EXCEPT !.lastBook.perHighlight = perHighlight,
                          !.lastBook.highlights = cur.highlights,
                          !.lastBook.mainPath = path,
                          !.modes = @ \cup {perHighlight}]
    IN IF w.ok
       THEN vault' = w.vault /\ BookDone(Logged(h, path, content))
       ELSE UNCHANGED vault /\ BookFailed(h)

\* lines 400-422 and 455-462: the main note's head; then the note of a book
\* without highlights, or the aggregate note, or the _Highlights folder
BookAfterHighlights ==
    /\ pc = "gotHighlights"
    /\ LET book == CurBook
           mainBookFilePath ==
               PathJoin(cur.bookFolderPath, sanitizeFileName(book.title) \o <<".md">>)
           head == generateBookFrontmatter(book) \o <<"# ">> \o book.title \o <<NL, NL>>
           n == Len(cur.highlights)
       IN IF cur.highlightsNull \/ n = 0
          THEN WriteAndFinish(mainBookFilePath,
                   head \o (IF settings.createNotePerHighlight
                            THEN <<"No highlights found for this book.\n">>
                            ELSE <<"# Highlights for ">> \o book.title \o <<NL, NL>>
                                 \o <<"(No highlights found or synced for this book.)\n">>),
                   settings.createNotePerHighlight)
          ELSE IF settings.createNotePerHighlight
          THEN LET r == ensureFolderExists(vault, highlightsFolderOf(cur.bookFolderPath))
                   h == [hist EXCEPT !.lastBook.perHighlight = TRUE,
                                     !.lastBook.highlights = cur.highlights,
                                     !.lastBook.mainPath = mainBookFilePath,
                                     !.modes = @ \cup {TRUE}]
               IN IF r.ok
                  THEN /\ vault' = r.vault
                       /\ cur' = [cur EXCEPT
                            !.mainBookFilePath = mainBookFilePath,
                            !.mainBookContent = head \o
                              <<"This book's highlights are stored as individual notes in the \"_Highlights\" subfolder.\n\n## Highlights Index\n">>,
                            !.highlightLinks = <<>>,
                            !.hlIdx = 1]
                       /\ pc' = "notes"
                       /\ hist' = h
                       /\ UNCHANGED <<bookIdx, successCount, errorCount>>
                  ELSE UNCHANGED vault /\ BookFailed(h)
          ELSE \E rnd \in [1..n -> RandomIds] :
                 LET items == [i \in 1..n |-> formatSingleHighlightAsListItem(Hl(i), rnd[i])]
                 IN WriteAndFinish(mainBookFilePath,
                        head \o <<"# Highlights for ">> \o book.title \o <<NL, NL>>
                             \o Join(items, <<>>),
                        FALSE)
    /\ UNCHANGED <<wire, writers, built, req, chat, settings, client, remoteBooks, remoteHl, books>>

\* a loop over the highlights that goes on to the next highlight after an
\* error of createOrUpdateFile
NoteFailedSkipping(h) ==
    /\ cur' = [cur EXCEPT !.hlIdx = @ + 1]
    /\ hist' = h
    /\ UNCHANGED <<vault, pc, bookIdx, successCount, errorCount>>

\* createOrUpdateFile threw inside the loop over the highlights: nothing
\* catches it in syncBookHighlights, it ends the book's sync
NoteFailed(h) == UNCHANGED vault /\ BookFailed(h)

\* one iteration of the loop over the highlights (lines 429-450)
BookWriteHighlightNote ==
    /\ pc = "notes"
    /\ cur.hlIdx <= Len(cur.highlights)
    /\ LET hl == Hl(cur.hlIdx)
           book == CurBook
       IN IF ~hl.has_id
          THEN UNCHANGED vault /\ BookFailed(hist)
          ELSE LET noteFilePath ==
                       noteFilePathOf(highlightsFolderOf(cur.bookFolderPath), hl)
                   noteContent ==
                       generateHighlightNoteFrontmatter(hl, book, sanitizeFileName(book.title))
                       \o formatSingleHighlightContent(hl)
                   w == createOrUpdateFile(vault, noteFilePath, noteContent)
               IN IF w.ok
                  THEN /\ vault' = w.vault
                       /\ cur' = [cur EXCEPT
                                    !.highlightLinks = Append(@, highlightLinkOf(hl)),
                                    !.hlIdx = @ + 1]
                       /\ hist' = Logged(hist, noteFilePath, noteContent)
                       /\ UNCHANGED <<pc, bookIdx, successCount, errorCount>>
                  ELSE NoteFailed(hist)
    /\ UNCHANGED <<wire, writers, built, req, chat, settings, client, remoteBooks, remoteHl, books>>

\* lines 451-452: the index is joined and the main note written
BookWriteIndex ==
    /\ pc = "notes"
    /\ cur.hlIdx > Len(cur.highlights)
    /\ WriteAndFinish(cur.mainBookFilePath,
                      cur.mainBookContent \o Join(cur.highlightLinks, <<NL>>) \o <<NL>>,
                      TRUE)
    /\ UNCHANGED <<wire, writers, built, req, chat, settings, client, remoteBooks, remoteHl, books>>

\* lines 373-376: the summary notice
SyncReport ==
    /\ pc = "loop"
    /\ bookIdx > Len(books)
    /\ EndRun("summary")
    /\ UNCHANGED <<wire, writers, built, req, chat, settings, client, remoteBooks, remoteHl, vault, books, bookIdx,
                   successCount, errorCount, cur>>

SyncNext ==
    \/ SyncStart
    \/ SyncEnsureRoot
    \/ BookStart
    \/ BookListHighlights
    \/ BookAfterHighlights
    \/ BookWriteHighlightNote
    \/ BookWriteIndex
    \/ SyncReport

\* ------------------------------------------------------ JSON values
\* A text (a response body, the payload of a stream line) is a sequence of
\* tokens; a JSON document is one token.  A JSON string value is the
\* sequence of its characters.
JNull == [kind |-> "null"]
JUndefined == [kind |-> "undefined"]
JStr(str) == [kind |-> "string", str |-> str]
JNum(n) == [kind |-> "number", num |-> n]
JArr(items) == [kind |-> "array", items |-> items]
JObj(fields) == [kind |-> "object", fields |-> fields]
JBook(id) == JObj("id" :> JStr(id))

T_Books0 == "[]"
T_Books1 == "[{\"id\":\"b1\"}]"
T_Books12 == "[{\"id\":\"b1\"},{\"id\":\"b2\"}]"
T_Null == "null"
T_DetailNotFound == "{\"detail\":\"Not found\"}"
T_DetailEmpty == "{\"detail\":\"\"}"
T_NoDetail == "{\"error\":\"x\"}"
T_ChatAnswer == "{\"answer\":\"Hi\",\"cited_paragraph_ids\":[]}"
T_Html == "<html>"
T_Done == "[DONE]"
T_Hel == "{\"content\":\"Hel\"}"
T_Lo == "{\"content\":\"lo\"}"
T_Answer == "{\"answer\":\"A\"}"
T_Delta == "{\"delta\":\"D\"}"
T_All == "{\"content\":\"C\",\"answer\":\"A\",\"delta\":\"D\"}"
T_EmptyContent == "{\"content\":\"\",\"answer\":\"A\"}"
T_AnswerDelta == "{\"answer\":\"A\",\"delta\":\"D\"}"
T_Cited == "{\"cited_chapters\":[1,2]}"
T_LoCited == "{\"content\":\"lo\",\"cited_chapters\":[2,\"x\",3]}"
T_BareString == "\"s\""
T_EmptyString == "\"\""
T_Oops == "oops"

\* the documents the model knows; every other token is not JSON
JSONTable ==
    T_Books0 :> JArr(<<>>)
    @@ T_Books1 :> JArr(<<JBook(Str_b1)>>)
    @@ T_Books12 :> JArr(<<JBook(Str_b1), JBook(Str_b2)>>)
    @@ T_Null :> JNull
    @@ T_DetailNotFound :> JObj("detail" :> JStr(<<"Not found">>))
    @@ T_DetailEmpty :> JObj("detail" :> JStr(<<>>))
    @@ T_NoDetail :> JObj("error" :> JStr(<<"x">>))
    @@ T_ChatAnswer :> JObj("answer" :> JStr(<<"H", "i">>)
                            @@ "cited_paragraph_ids" :> JArr(<<>>))
    @@ T_Hel :> JObj("content" :> JStr(<<"H", "e", "l">>))
    @@ T_Lo :> JObj("content" :> JStr(<<"l", "o">>))
    @@ T_Answer :> JObj("answer" :> JStr(<<"A">>))
    @@ T_Delta :> JObj("delta" :> JStr(<<"D">>))
    @@ T_All :> JObj("content" :> JStr(<<"C">>) @@ "answer" :> JStr(<<"A">>)
                     @@ "delta" :> JStr(<<"D">>))
    @@ T_EmptyContent :> JObj("content" :> JStr(<<>>) @@ "answer" :> JStr(<<"A">>))
    @@ T_AnswerDelta :> JObj("answer" :> JStr(<<"A">>) @@ "delta" :> JStr(<<"D">>))
    @@ T_Cited :> JObj("cited_chapters" :> JArr(<<JNum(1), JNum(2)>>))
    @@ T_LoCited :> JObj("content" :> JStr(<<"l", "o">>)
                         @@ "cited_chapters" :> JArr(<<JNum(2), JStr(<<"x">>), JNum(3)>>))
    @@ T_BareString :> JStr(<<"s">>)
    @@ T_EmptyString :> JStr(<<>>)

\* JSON.parse(text): white space around the document is skipped; anything
\* else than one document throws SyntaxError
JSONParse(text) ==
    LET t == Trim(text)
    IN IF Len(t) = 1 /\ t[1] \in DOMAIN JSONTable
       THEN [ok |-> TRUE, value |-> JSONTable[t[1]]]
       ELSE [ok |-> FALSE, value |-> JUndefined]

\* v.name for a value v that is neither null nor undefined
Get(v, name) ==
    IF v.kind = "object" /\ name \in DOMAIN v.fields THEN v.fields[name] ELSE JUndefined

\* the truthiness of a value (if (v), v || w)
Truthy(v) ==
    CASE v.kind \in {"undefined", "null"} -> FALSE
      [] v.kind = "string" -> v.str # <<>>
      [] v.kind = "number" -> v.num # 0
      [] OTHER -> TRUE

\* ------------------------------------------- BookriseClient.request
Returned(value) == [kind |-> "return", value |-> value]
Thrown(error) == [kind |-> "throw", error |-> error]
NoOutcome == [kind |-> "none"]
ApiError(status, message) ==
    [type |-> "ApiError", status |-> status, message |-> message]
SyntaxError == [type |-> "SyntaxError"]
TypeError == [type |-> "TypeError"]
TransportError == [type |-> "TransportError"]

\* lines 70-76: errorBody = parsedError.detail || response.text, when the
\* body parses; a body that parses to null makes .detail throw, which the
\* catch swallows
errorBodyOf(text) ==
    LET p == JSONParse(text)
    IN IF p.ok /\ p.value.kind # "null" /\ Truthy(Get(p.value, "detail"))
       THEN Get(p.value, "detail")
       ELSE JStr(text)

\* a request() that parses the body of a 204 as well
requestParsing204(response) ==
    IF response.status < 200 \/ response.status >= 300
    THEN Thrown(ApiError(response.status, errorBodyOf(response.text)))
    ELSE IF response.text = <<>>
    THEN Returned(JNull)
    ELSE IF JSONParse(response.text).ok
    THEN Returned(JSONParse(response.text).value)
    ELSE Thrown(SyntaxError)

\* a request() that returns the body of an error status
requestIgnoringStatus(response) ==
    IF response.text = <<>> \/ response.status = 204
    THEN Returned(JNull)
    ELSE IF JSONParse(response.text).ok
    THEN Returned(JSONParse(response.text).value)
    ELSE Thrown(SyntaxError)

\* request(): what the call does with the executor's response
request(response) ==
    IF response.status < 200 \/ response.status >= 300
    THEN Thrown(ApiError(response.status, errorBodyOf(response.text)))
    ELSE IF response.text = <<>> /\ response.status # 204
    THEN Returned(JNull)
    ELSE IF response.status = 204
    THEN Returned(JNull)
    ELSE IF JSONParse(response.text).ok
    THEN Returned(JSONParse(response.text).value)
    ELSE Thrown(SyntaxError)

Statuses == {199, 200, 201, 204, 299, 300, 404, 500}
BodyTexts ==
    {<<>>, <<" ">>} \cup
    {<<t>> : t \in {T_Books0, T_Books1, T_Null, T_DetailNotFound, T_DetailEmpty,
                    T_NoDetail, T_ChatAnswer, T_Html}}
Responses == [status : Statuses, text : BodyTexts]
Endpoints == {<<"/api/books">>, <<"/api/highlights?book_id=">> \o Str_b1, <<"/chat">>}
MaxCalls == 2

\* caller is the method that was called, handed whether the call has handed a
\* request to requestUrlFn
ReqIdle == [pc |-> "idle", n |-> 0, caller |-> "none", bookId |-> <<>>, endpoint |-> <<>>,
            handed |-> FALSE, response |-> [status |-> 0, text |-> <<>>],
            outcome |-> NoOutcome]

\* request(endpoint) builds the request and hands it to requestUrlFn
RequestSend ==
    /\ req.pc \in {"idle", "done"}
    /\ req.n < MaxCalls
    /\ \E e \in Endpoints :
          req' = [ReqIdle EXCEPT !.pc = "sent", !.n = req.n + 1, !.caller = "request",
                                 !.endpoint = e, !.handed = TRUE]
    /\ UNCHANGED <<syncVars, wire, writers, built, chat>>

\* requestUrlFn resolves with a response
RequestAnswered ==
    /\ req.pc = "sent"
    /\ \E r \in Responses :
          req' = [req EXCEPT !.pc = "done", !.response = r, !.outcome = request(r)]
    /\ UNCHANGED <<syncVars, wire, writers, built, chat>>

\* requestUrlFn rejects (a transport failure): request() rejects with it
RequestTransportFails ==
    /\ req.pc = "sent"
    /\ req' = [req EXCEPT !.pc = "done", !.outcome = Thrown(TransportError)]
    /\ UNCHANGED <<syncVars, wire, writers, built, chat>>

\* --------------------------------------------- BookriseClient.chat
\* impl names the revision: "fetch" is src/BookriseClient.ts (it reads the
\* response stream chunk by chunk), "requestUrl" the revision that decodes
\* the whole body text of requestUrlFn's response.
MaxLines == 3

DataPrefix == <<"d", "a", "t", "a", ":">>
StdLine(t) == DataPrefix \o <<" ", t>>
PayloadTokens == {T_Done, T_Hel, T_Lo, T_Delta, T_All, T_EmptyContent,
                  T_AnswerDelta, T_Cited, T_LoCited, T_BareString, T_EmptyString, T_Null, T_Oops}
StreamLines ==
    {StdLine(t) : t \in PayloadTokens}
    \cup {DataPrefix \o <<T_Hel>>, StdLine(T_Done) \o <<"\r">>, <<>>}

StartsWith(s, prefix) ==
    Len(s) >= Len(prefix) /\ SubSeq(s, 1, Len(prefix)) = prefix
Slice(s, n) == SubSeq(s, n + 1, Len(s))

\* the sequences over S of length 1..n
RECURSIVE SeqsUpTo(_, _)
SeqsUpTo(S, n) ==
    IF n <= 0 THEN {}
    ELSE {<<e>> : e \in S} \cup
         {Append(q, e) : <<q, e>> \in SeqsUpTo(S, n - 1) \X S}

\* what `fullAnswer += v` adds and onChunk(v) hands over
TextOf(v) == IF v.kind = "string" THEN v.str ELSE <<"[object]">>

\* an if-chain that tests answer before content
PickFieldAnswerFirst(parsed) ==
    IF Truthy(Get(parsed, "answer")) THEN <<Get(parsed, "answer")>>
    ELSE IF Truthy(Get(parsed, "content")) THEN <<Get(parsed, "content")>>
    ELSE IF Truthy(Get(parsed, "delta")) THEN <<Get(parsed, "delta")>>
    ELSE IF parsed.kind = "string" THEN <<parsed>>
    ELSE <<>>

\* the if-chain of both revisions: the values to emit for a parsed payload
\* that is not null (none or one)
PickField(parsed) ==
    IF Truthy(Get(parsed, "content")) THEN <<Get(parsed, "content")>>
    ELSE IF Truthy(Get(parsed, "answer")) THEN <<Get(parsed, "answer")>>
    ELSE IF Truthy(Get(parsed, "delta")) THEN <<Get(parsed, "delta")>>
    ELSE IF parsed.kind = "string" THEN <<parsed>>
    ELSE <<>>

\* parsed.cited_chapters && Array.isArray(parsed.cited_chapters)
CitedArray(parsed) ==
    IF Truthy(Get(parsed, "cited_chapters")) /\ Get(parsed, "cited_chapters").kind = "array"
    THEN Get(parsed, "cited_chapters").items
    ELSE <<>>

NoAcc == [fullAnswer |-> <<>>, onChunkCalls |-> <<>>, citedChapters |-> <<>>]

\* a revision that hands the chunk to onChunk but does not keep it
emitFetchNotKept(acc, chunk) ==
    [acc EXCEPT !.onChunkCalls = Append(@, chunk)]

\* src/BookriseClient.ts: fullAnswer += chunk; onChunk(chunk)
emitFetch(acc, chunk) ==
    [acc EXCEPT !.fullAnswer = @ \o chunk, !.onChunkCalls = Append(@, chunk)]

\* a branch that emits its chunk twice
EmitAllTwice(acc, chunks) ==
    IF chunks = <<>> THEN acc
    ELSE emitFetch(emitFetch(acc, Head(chunks)), Head(chunks))

RECURSIVE EmitAll(_, _)
EmitAll(acc, chunks) ==
    IF chunks = <<>> THEN acc ELSE EmitAll(emitFetch(acc, Head(chunks)), Tail(chunks))

\* the other revision's emitChunk: an empty chunk is not emitted
emitChunk(acc, chunk) ==
    IF chunk = <<>> THEN acc ELSE emitFetch(acc, chunk)

RECURSIVE EmitChunkAll(_, _)
EmitChunkAll(acc, chunks) ==
    IF chunks = <<>> THEN acc ELSE EmitChunkAll(emitChunk(acc, Head(chunks)), Tail(chunks))

\* data === '[DONE]' never holding
isDoneNever(data) == FALSE

\* data === '[DONE]'
isDone(data) == data = <<T_Done>>

\* src/BookriseClient.ts lines 171-205: one line of a decoded chunk
decodeLineFetch(acc, line) ==
    IF ~StartsWith(line, DataPrefix \o <<" ">>) THEN acc
    ELSE LET data == Slice(line, 6)
             p == JSONParse(data)
         IN IF isDone(data) THEN acc
            ELSE IF ~p.ok \/ p.value.kind = "null" THEN acc
            ELSE [EmitAll(acc, [i \in 1..Len(PickField(p.value)) |->
                                   TextOf(PickField(p.value)[i])])
                    EXCEPT !.citedChapters = @ \o CitedArray(p.value)]

AddNumbers(set, items) ==
    Dedupe(set \o SelectSeq(items, LAMBDA x : x.kind = "number"))

\* the requestUrl revision, lines 386-421: one line of the body text
decodeLineRequestUrl(acc, rawLine) ==
    LET line == Trim(rawLine)
    IN IF ~StartsWith(line, DataPrefix) THEN acc
       ELSE LET data == Trim(Slice(line, 5))
                p == JSONParse(data)
            IN IF data = <<>> \/ isDone(data) THEN acc
               ELSE IF ~p.ok \/ p.value.kind = "null" THEN emitChunk(acc, data)
               ELSE [EmitChunkAll(acc, [i \in 1..Len(PickField(p.value)) |->
                                           TextOf(PickField(p.value)[i])])
                       EXCEPT !.citedChapters = AddNumbers(@, CitedArray(p.value))]

\* a decode whose handling of a payload depends on what was emitted before
decodeLineMixed(impl, acc, line) ==
    IF acc.onChunkCalls = <<>> THEN decodeLineFetch(acc, line)
    ELSE decodeLineRequestUrl(acc, line)

decodeLine(impl, acc, line) ==
    IF impl = "fetch" THEN decodeLineFetch(acc, line) ELSE decodeLineRequestUrl(acc, line)

\* for (const line of lines): st is [acc, emissions], emissions recording
\* for every line decoded the onChunk calls made for it
RECURSIVE decodeLines(_, _, _)
decodeLines(impl, st, lines) ==
    IF lines = <<>> THEN st
    ELSE LET a == decodeLine(impl, st.acc, Head(lines))
         IN decodeLines(impl,
                [acc |-> a,
                 emissions |-> Append(st.emissions,
                     SubSeq(a.onChunkCalls, Len(st.acc.onChunkCalls) + 1,
                            Len(a.onChunkCalls)))],
                Tail(lines))

\* a result that lists a chapter as often as the stream named it
ChatResultKeepingRepeats(acc) ==
    [kind |-> "ChatResponse", answer |-> acc.fullAnswer, cited_paragraph_ids |-> <<>>,
     cited_chapters |-> acc.citedChapters]

ChatResult(acc) ==
    [kind |-> "ChatResponse", answer |-> acc.fullAnswer, cited_paragraph_ids |-> <<>>,
     cited_chapters |-> Dedupe(acc.citedChapters)]

InvalidArgument == [type |-> "InvalidArgument"]
NotFound(bookId) == [type |-> "NotFound", bookId |-> bookId]
ChatFailure(cause) == [type |-> "ChatFailure", cause |-> cause]
ChatApiError(status) == [type |-> "ChatApiError", status |-> status]
EmptyResponse == [type |-> "EmptyResponse"]
StreamReadError == [type |-> "StreamReadError"]

\* books.find(b => b.id === bookId), always finding one
findBookAlways(booksValue, bookId) == TRUE

\* books.find(b => b.id === bookId) on the array listBooks returned
findBook(booksValue, bookId) ==
    \E i \in 1..Len(booksValue.items) :
        Get(booksValue.items[i], "id") = JStr(bookId)

\* a check that lets every string pass
FalsyNever(str) == FALSE

\* !bookId, !prompt: a string is falsy when it is empty
Falsy(str) == str = <<>>

ChatBookIds == {<<>>, Str_b1, <<"m">>}
Prompts == {<<>>, <<"hello">>}
BooksResponses ==
    [status : {200, 204, 500},
     text : {<<>>, <<T_Books0>>, <<T_Books1>>, <<T_Books12>>, <<T_Null>>, <<T_Html>>,
             <<T_DetailNotFound>>}]
ChatResponses ==
    [status : {200, 500}, text : {<<>>, <<T_ChatAnswer>>, <<T_Null>>, <<T_Html>>}]

ChatIdle(impl) ==
    [impl |-> impl, pc |-> "idle", bookId |-> <<>>, prompt |-> <<>>,
     streaming |-> FALSE, log |-> <<>>, books |-> JUndefined, acc |-> NoAcc,
     delivered |-> <<>>, emissions |-> <<>>, reader |-> "none", result |-> NoOutcome]

Finished(c, outcome) == [c EXCEPT !.pc = "done", !.result = outcome]

\* chat(bookId, prompt, contextIds, onChunk) is called: the arguments are
\* checked and listBooks() sends GET /api/books
ChatCall ==
    /\ chat.pc \in {"idle", "done"}
    /\ \E bookId \in ChatBookIds, prompt \in Prompts, streaming \in BOOLEAN :
          LET c == [ChatIdle(chat.impl) EXCEPT !.bookId = bookId, !.prompt = prompt,
                                               !.streaming = streaming]
          IN chat' = IF Falsy(bookId) \/ Falsy(prompt)
                     THEN Finished(c, Thrown(InvalidArgument))
                     ELSE [c EXCEPT !.pc = "listBooks", !.log = <<"GET /api/books">>]
    /\ UNCHANGED <<syncVars, wire, writers, built, req>>

\* listBooks() settles; the book is looked up; the POST to /chat is sent
ChatBooksAnswered ==
    /\ chat.pc = "listBooks"
    /\ \E r \in BooksResponses :
          LET o == request(r)
              c == [chat EXCEPT !.log = Append(@, "GET answered")]
          IN chat' =
               IF o.kind = "throw" THEN Finished(c, o)
               ELSE LET cb == [c EXCEPT !.books = o.value]
                    IN IF o.value.kind # "array" THEN Finished(cb, Thrown(TypeError))
                       ELSE IF ~findBook(o.value, chat.bookId)
                       THEN Finished(cb, Thrown(NotFound(chat.bookId)))
                       ELSE [cb EXCEPT !.pc = "post", !.log = Append(@, "POST /chat")]
    /\ UNCHANGED <<syncVars, wire, writers, built, req>>

\* the GET of the book list fails in transport: chat rejects with that error
ChatBooksTransportFails ==
    /\ chat.pc = "listBooks"
    /\ chat' = Finished([chat EXCEPT !.log = Append(@, "GET failed")],
                        Thrown(TransportError))
    /\ UNCHANGED <<syncVars, wire, writers, built, req>>

\* without onChunk: request("/chat") settles
ChatPostAnswered ==
    /\ chat.pc = "post"
    /\ ~chat.streaming
    /\ \E r \in ChatResponses :
          LET o == request(r)
          IN chat' = IF o.kind = "throw" THEN Finished(chat, Thrown(ChatFailure(o.error)))
                     ELSE IF ~Truthy(o.value)
                     THEN Finished(chat, Thrown(ChatFailure(EmptyResponse)))
                     ELSE Finished(chat, o)
    /\ UNCHANGED <<syncVars, wire, writers, built, req>>

\* the POST fails in transport (fetch or requestUrlFn rejects)
ChatPostTransportFails ==
    /\ chat.pc = "post"
    /\ chat' = Finished(chat, Thrown(ChatFailure(TransportError)))
    /\ UNCHANGED <<syncVars, wire, writers, built, req>>

\* requestUrl revision with onChunk: the response arrives whole and its text
\* is decoded line by line
ChatStreamAnswered ==
    /\ chat.pc = "post"
    /\ chat.streaming
    /\ chat.impl = "requestUrl"
    /\ \E status \in {200, 500}, lines \in SeqsUpTo(StreamLines, MaxLines) :
          chat' = IF status < 200 \/ status >= 300
                  THEN Finished(chat, Thrown(ChatFailure(ChatApiError(status))))
                  ELSE IF lines = << <<>> >>
                  THEN Finished(chat, Thrown(ChatFailure(EmptyResponse)))
                  ELSE LET st == decodeLines(chat.impl,
                                     [acc |-> chat.acc, emissions |-> chat.emissions], lines)
                       IN Finished([chat EXCEPT !.acc = st.acc, !.emissions = st.emissions,
                                                !.delivered = lines],
                                   Returned(ChatResult(st.acc)))
    /\ UNCHANGED <<syncVars, wire, writers, built, req>>

\* fetch revision with onChunk: fetch resolves; an error status is thrown
ChatStreamOpened ==
    /\ chat.pc = "post"
    /\ chat.streaming
    /\ chat.impl = "fetch"
    /\ \E status \in {200, 500} :
          chat' = IF status < 200 \/ status >= 300
                  THEN Finished(chat, Thrown(ChatFailure(ChatApiError(status))))
                  ELSE [chat EXCEPT !.pc = "reading", !.reader = "open"]
    /\ UNCHANGED <<syncVars, wire, writers, built, req>>

\* reader.read() resolves with a chunk, whose lines are decoded
ChatRead ==
    /\ chat.pc = "reading"
    /\ Len(chat.delivered) < MaxLines
    /\ \E lines \in SeqsUpTo(StreamLines, MaxLines - Len(chat.delivered)) :
          LET st == decodeLines(chat.impl,
                        [acc |-> chat.acc, emissions |-> chat.emissions], lines)
          IN chat' = [chat EXCEPT !.acc = st.acc, !.emissions = st.emissions,
                                  !.delivered = @ \o lines]
    /\ UNCHANGED <<syncVars, wire, writers, built, req>>

\* a result that drops what was delivered before the failure
readFailedPartial(c) == Finished([c EXCEPT !.acc = NoAcc], Returned(ChatResult(c.acc)))

\* reader.read() rejects: the catch rethrows "Failed to get chat response"
readFailed(c) == Finished(c, Thrown(ChatFailure(StreamReadError)))

ChatReadFails ==
    /\ chat.pc = "reading"
    /\ chat' = readFailed([chat EXCEPT !.reader = "failed"])
    /\ UNCHANGED <<syncVars, wire, writers, built, req>>

\* reader.read() resolves with done: the aggregated result is returned
ChatReadDone ==
    /\ chat.pc = "reading"
    /\ chat' = Finished([chat EXCEPT !.reader = "done"], Returned(ChatResult(chat.acc)))
    /\ UNCHANGED <<syncVars, wire, writers, built, req>>

\* ------------------------------------ BookriseClient.listHighlights
\* listHighlights(bookId): the argument is checked, then request() is
\* called with the endpoint of the book's highlights
ListHighlights ==
    /\ req.pc \in {"idle", "done"}
    /\ req.n < MaxCalls
    /\ \E bookId \in ChatBookIds :
          LET r == [ReqIdle EXCEPT !.n = req.n + 1, !.caller = "listHighlights",
                                   !.bookId = bookId]
          IN req' = IF Falsy(bookId)
                    THEN [r EXCEPT !.pc = "done", !.outcome = Thrown(InvalidArgument)]
                    ELSE [r EXCEPT !.pc = "sent", !.handed = TRUE,
                                   !.endpoint = <<"/api/highlights?book_id=">> \o bookId]
    /\ UNCHANGED <<syncVars, wire, writers, built, chat>>

\* ------------------------------------------------------ specifications
\* the plugin while nothing is synced
SyncQuiet ==
    /\ settings = [bookriseSyncFolder |-> SyncFolder, createNotePerHighlight |-> FALSE]
    /\ client = TRUE
    /\ remoteBooks = [status |-> "ok", list |-> <<>>]
    /\ remoteHl = [k \in BookKeys |-> [ok |-> TRUE, isNull |-> FALSE, list |-> <<>>]]
    /\ vault = (<<>> :> FolderEntry)
    /\ pc = "idle"
    /\ books = <<>>
    /\ bookIdx = 0
    /\ successCount = 0
    /\ errorCount = 0
    /\ cur = NoCur
    /\ hist = [runs |-> 0, snapshot |-> vault, attempted |-> <<>>, written |-> <<>>,
               lastBook |-> NoBook, report |-> NoReport,
               folders |-> {}, modes |-> {}, updates |-> 0]

\* the sync command, run up to MaxRuns times
Init == SyncInit /\ req = ReqIdle /\ chat = ChatIdle("fetch") /\ built = NoPaths /\ writers = NoWriters /\ wire = NoWire
Spec == Init /\ [][SyncNext]_vars

\* calls of BookriseClient.request
RequestNext ==
    \/ RequestSend
    \/ RequestAnswered
    \/ RequestTransportFails
RequestInit == SyncQuiet /\ req = ReqIdle /\ chat = ChatIdle("fetch") /\ built = NoPaths /\ writers = NoWriters /\ wire = NoWire
SpecRequest == RequestInit /\ [][RequestNext]_vars

\* the methods of the client up to the response of their request: request,
\* listHighlights, and chat without the decode of a stream
ClientNext ==
    \/ RequestSend
    \/ ListHighlights
    \/ RequestAnswered
    \/ RequestTransportFails
    \/ ChatCall
    \/ ChatBooksAnswered
    \/ ChatBooksTransportFails
    \/ ChatPostAnswered
    \/ ChatPostTransportFails
ClientInit ==
    /\ SyncQuiet /\ req = ReqIdle /\ built = NoPaths /\ writers = NoWriters /\ wire = NoWire
    /\ chat \in {ChatIdle("fetch"), ChatIdle("requestUrl")}
SpecClient == ClientInit /\ [][ClientNext]_vars

\* calls of BookriseClient.chat, in either revision
ChatNext ==
    \/ ChatCall
    \/ ChatBooksAnswered
    \/ ChatBooksTransportFails
    \/ ChatPostAnswered
    \/ ChatPostTransportFails
    \/ ChatStreamAnswered
    \/ ChatStreamOpened
    \/ ChatRead
    \/ ChatReadFails
    \/ ChatReadDone
ChatInit ==
    /\ SyncQuiet /\ req = ReqIdle /\ built = NoPaths /\ writers = NoWriters /\ wire = NoWire
    /\ chat \in {ChatIdle("fetch"), ChatIdle("requestUrl")}
SpecChat == ChatInit /\ [][ChatNext]_vars

\* ------------------------------------------- the settings tab, the remote
\* saveSettings (lines 329-338) after an onChange of the settings tab: the
\* setting is assigned, saved, and the client is constructed anew when the
\* API key is not empty and set to undefined otherwise.  The variable client
\* is TRUE exactly when the key is not empty, so an update of the folder or
\* of the mode flag leaves it as it is.
MaxUpdates == 1
OtherFolder == <<"T">>
LiveFolders == {SyncFolder, OtherFolder}
SaveSyncFolder ==
    /\ hist.updates < MaxUpdates
    /\ \E value \in LiveFolders \ {settings.bookriseSyncFolder} :
          settings' = [settings EXCEPT !.bookriseSyncFolder = value]
    /\ hist' = [hist EXCEPT !.updates = @ + 1]
    /\ UNCHANGED <<wire, writers, built, req, chat, client, remoteBooks, remoteHl, vault, pc, books, bookIdx,
                   successCount, errorCount, cur>>
SaveMode ==
    /\ hist.updates < MaxUpdates
    /\ settings' = [settings EXCEPT !.createNotePerHighlight = ~@]
    /\ hist' = [hist EXCEPT !.updates = @ + 1]
    /\ UNCHANGED <<wire, writers, built, req, chat, client, remoteBooks, remoteHl, vault, pc, books, bookIdx,
                   successCount, errorCount, cur>>
\* the API key is cleared, or entered again
SaveApiKey ==
    /\ hist.updates < MaxUpdates
    /\ client' = ~client
    /\ hist' = [hist EXCEPT !.updates = @ + 1]
    /\ UNCHANGED <<wire, writers, built, req, chat, settings, remoteBooks, remoteHl, vault, pc, books, bookIdx,
                   successCount, errorCount, cur>>
\* between two runs the last highlight of a book is removed at the remote
RemoteRemoves ==
    /\ pc = "idle"
    /\ hist.runs >= 1
    /\ \E k \in Range(remoteBooks.list) :
          /\ remoteHl[k].ok /\ remoteHl[k].list # <<>>
          /\ remoteHl' = [remoteHl EXCEPT ![k].list = SubSeq(@, 1, Len(@) - 1)]
    /\ UNCHANGED <<wire, writers, built, req, chat, settings, client, remoteBooks, vault, pc, books, bookIdx,
                   successCount, errorCount, cur, hist>>

\* sync runs with the settings tab and the remote at work; the remote answers
\* with the first highlights of each book
LiveInit ==
    /\ settings \in [bookriseSyncFolder : {SyncFolder}, createNotePerHighlight : BOOLEAN]
    /\ client = TRUE
    /\ remoteBooks \in {[status |-> "ok", list |-> l] : l \in {<<"B1">>, <<"B1", "B2">>}}
    /\ remoteHl \in {f \in [BookKeys -> UNION {HlAnswers(k) : k \in BookKeys}] :
                       \A k \in BookKeys :
                          IF k \in Range(remoteBooks.list)
                          THEN LET all == SelectSeq(<<"H1", "H2", "H3", "H4", "H5", "H6">>,
                                                    LAMBDA h : h \in HlKeysOf(k))
                               IN /\ f[k] \in HlAnswers(k) /\ f[k].ok /\ ~f[k].isNull
                                  /\ f[k].list # <<>>
                                  /\ f[k].list = SubSeq(all, 1, Len(f[k].list))
                          ELSE f[k] = [ok |-> TRUE, isNull |-> FALSE, list |-> <<>>]}
    /\ vault = (<<>> :> FolderEntry)
    /\ pc = "idle"
    /\ books = <<>>
    /\ bookIdx = 0
    /\ successCount = 0
    /\ errorCount = 0
    /\ cur = NoCur
    /\ hist = [runs |-> 0, snapshot |-> vault, attempted |-> <<>>, written |-> <<>>,
               lastBook |-> NoBook, report |-> NoReport,
               folders |-> {}, modes |-> {}, updates |-> 0]
    /\ req = ReqIdle
    /\ chat = ChatIdle("fetch")
    /\ built = NoPaths /\ writers = NoWriters /\ wire = NoWire
LiveNext ==
    \/ SyncStart
    \/ SyncEnsureRoot
    \/ BookStart
    \/ BookListHighlights
    \/ BookAfterHighlights
    \/ BookWriteHighlightNote
    \/ BookWriteIndex
    \/ SyncReport
    \/ SaveSyncFolder
    \/ SaveMode
    \/ SaveApiKey
    \/ RemoteRemoves
SpecLive == LiveInit /\ [][LiveNext]_vars

\* --------------------------------- createOrUpdateFile of overlapping runs
\* Each run under way invokes createOrUpdateFile up to MaxWrites times, for
\* the main note of book B1 or of book B2.  An invocation looks the path up
\* and issues vault.modify or vault.create (lines 588-593, up to the await);
\* the vault operation takes effect when the await completes.
MaxWrites == 2
WritePaths == {mainBookFilePathOf(SyncFolder, BookCatalog[k]) : k \in {"B1", "B2"}}
WriteCall(r) ==
    /\ client
    /\ writers[r].pc = "idle"
    /\ writers[r].n < MaxWrites
    /\ \E filePath \in WritePaths :
          LET existingFile == filePath \in DOMAIN vault /\ vault[filePath].kind = "file"
          IN writers' = [writers EXCEPT ![r] =
                 [pc |-> IF existingFile THEN "modify" ELSE "create",
                  n |-> writers[r].n + 1,
                  path |-> filePath,
                  content |-> <<"run", ToString(r)>>]]
    /\ UNCHANGED <<syncVars, wire, built, req, chat>>
\* vault.modify completes
WriteModified(r) ==
    /\ writers[r].pc = "modify"
    /\ vault' = VaultPut(vault, writers[r].path, FileEntry(writers[r].content))
    /\ writers' = [writers EXCEPT ![r].pc = "idle"]
    /\ UNCHANGED <<wire, built, req, chat, settings, client, remoteBooks, remoteHl, pc, books, bookIdx,
                   successCount, errorCount, cur, hist>>
\* vault.create completes, or throws because the path is taken by now
WriteCreated(r) ==
    /\ writers[r].pc = "create"
    /\ IF writers[r].path \in DOMAIN vault \/ BelowFile(vault, writers[r].path)
       THEN /\ UNCHANGED vault
            /\ writers' = [writers EXCEPT ![r].pc = "idle", ![r].content = <<"threw">>]
       ELSE /\ vault' = VaultPut(vault, writers[r].path, FileEntry(writers[r].content))
            /\ writers' = [writers EXCEPT ![r].pc = "idle"]
    /\ UNCHANGED <<wire, built, req, chat, settings, client, remoteBooks, remoteHl, pc, books, bookIdx,
                   successCount, errorCount, cur, hist>>
WritesInit ==
    /\ SyncQuiet /\ req = ReqIdle /\ chat = ChatIdle("fetch") /\ built = NoPaths
    /\ writers = NoWriters /\ wire = NoWire
WritesNext ==
    \/ \E r \in Runs : WriteCall(r)
    \/ \E r \in Runs : WriteModified(r)
    \/ \E r \in Runs : WriteCreated(r)
SpecWrites == WritesInit /\ [][WritesNext]_vars

\* ------------------------------------- the stream as text, and its reads
\* A stream text is up to MaxWireLines lines, each ended by a newline.  The
\* fetch revision gets it in two reads, cut at any position, and decodes the
\* lines of each chunk (chunk.split('\n')) as the chunk arrives; the
\* requestUrl revision gets response.text whole and splits it into lines.
MaxWireLines == 2
WirePrefixes == {DataPrefix \o <<" ">>, DataPrefix, DataPrefix \o <<" ", " ">>,
                 <<" ">> \o DataPrefix \o <<" ">>, <<"e", "v", "e", "n", "t", ":", " ">>}
WirePayloads == {T_Hel, T_Lo, T_Done}
WireLines == {pre \o <<t>> : pre \in WirePrefixes, t \in WirePayloads}
WireTexts == {Join([i \in 1..Len(ls) |-> ls[i] \o <<NL>>], <<>>) :
                 ls \in SeqsUpTo(WireLines, MaxWireLines)}
\* text.split('\n')
RECURSIVE SplitNL(_)
SplitNL(text) ==
    IF \A i \in 1..Len(text) : text[i] # NL THEN <<text>>
    ELSE LET i == CHOOSE k \in 1..Len(text) :
                     text[k] = NL /\ \A j \in 1..(k - 1) : text[j] # NL
         IN <<SubSeq(text, 1, i - 1)>> \o SplitNL(SubSeq(text, i + 1, Len(text)))
\* the lines of the chunks, decoded in the order of their arrival
RECURSIVE decodeChunks(_, _, _)
decodeChunks(impl, acc, chunks) ==
    IF chunks = <<>> THEN acc
    ELSE decodeChunks(impl,
             decodeLines(impl, [acc |-> acc, emissions |-> <<>>], SplitNL(Head(chunks))).acc,
             Tail(chunks))
\* what the revision decodes of reads: the fetch revision chunk by chunk,
\* the requestUrl revision the text its transport assembled
decodeReads(impl, chunks) ==
    IF impl = "fetch" THEN decodeChunks(impl, NoAcc, chunks)
    ELSE decodeChunks(impl, NoAcc, <<Join(chunks, <<>>)>>)
WireInit ==
    /\ SyncQuiet /\ req = ReqIdle /\ chat = ChatIdle("fetch") /\ built = NoPaths
    /\ writers = NoWriters
    /\ \E impl \in {"fetch", "requestUrl"}, text \in WireTexts :
          \E cut \in 0..Len(text) :
             wire = [state |-> "text", impl |-> impl, text |-> text, cut |-> cut]
\* the stream is decoded, as one read and as the two reads
WireDecode ==
    /\ wire.state = "text"
    /\ wire' = [state |-> "decoded", impl |-> wire.impl, text |-> wire.text, cut |-> wire.cut,
                whole |-> decodeReads(wire.impl, <<wire.text>>),
                parts |-> decodeReads(wire.impl,
                              <<SubSeq(wire.text, 1, wire.cut),
                                SubSeq(wire.text, wire.cut + 1, Len(wire.text))>>)]
    /\ UNCHANGED <<syncVars, writers, built, req, chat>>
WireNext == WireDecode
SpecWire == WireInit /\ [][WireNext]_vars

\* the names and paths of syncBookHighlights, for titles of up to MaxTitle
\* characters and sync folder settings of up to MaxFolder characters
MaxTitle == 2
MaxFolder == 3
TitleChars == {"a", "/", ":", " ", "\t"}
FolderChars == {"S", "/"}
Titles == {<<>>} \cup SeqsUpTo(TitleChars, MaxTitle)
\* the settings tab stores value || DEFAULT_SETTINGS.bookriseSyncFolder
SyncFolderSettings == SeqsUpTo(FolderChars, MaxFolder)
PathsInit ==
    /\ settings \in [bookriseSyncFolder : SyncFolderSettings, createNotePerHighlight : {TRUE}]
    /\ client = TRUE
    /\ remoteBooks = [status |-> "ok", list |-> <<>>]
    /\ remoteHl = [k \in BookKeys |-> [ok |-> TRUE, isNull |-> FALSE, list |-> <<>>]]
    /\ vault = (<<>> :> FolderEntry)
    /\ pc = "idle"
    /\ books = <<>>
    /\ bookIdx = 0
    /\ successCount = 0
    /\ errorCount = 0
    /\ cur = NoCur
    /\ hist = [runs |-> 0, snapshot |-> vault, attempted |-> <<>>, written |-> <<>>,
               lastBook |-> NoBook, report |-> NoReport,
               folders |-> {}, modes |-> {}, updates |-> 0]
    /\ req = ReqIdle
    /\ chat = ChatIdle("fetch")
    /\ built \in {[NoPaths EXCEPT !.state = "title", !.title = t] : t \in Titles}
    /\ writers = NoWriters /\ wire = NoWire

\* lines 392-401, 421 and the path of a highlight's note: the paths of a book
\* with the title, and of the note of highlight H1
BuildPaths ==
    /\ built.state = "title"
    /\ LET book == [title |-> built.title]
           bookFolderPath == bookFolderPathOf(settings.bookriseSyncFolder, book)
           highlightsFolder == highlightsFolderOf(bookFolderPath)
       IN built' = [built EXCEPT
                      !.state = "built",
                      !.bookFolderName = sanitizeFileName(built.title),
                      !.bookFolderPath = bookFolderPath,
                      !.mainBookFilePath =
                          mainBookFilePathOf(settings.bookriseSyncFolder, book),
                      !.highlightsFolder = highlightsFolder,
                      !.noteFilePath = noteFilePathOf(highlightsFolder, HlCatalog["H1"])]
    /\ UNCHANGED <<syncVars, wire, writers, req, chat>>
PathsNext == BuildPaths
SpecPaths == PathsInit /\ [][PathsNext]_vars


\* =================================================== claims on the sync
RunOver == pc = "idle" /\ hist.runs >= 1
Reported == RunOver /\ hist.report.kind = "summary"
BookOver == hist.lastBook.outcome = "ok" /\ Len(hist.lastBook.highlights) >= 1

RECURSIVE CountToken(_, _)
CountToken(s, t) ==
    IF s = <<>> THEN 0 ELSE (IF Head(s) = t THEN 1 ELSE 0) + CountToken(Tail(s), t)
\* every list item ends with its block reference, " ^<id>"
ListItemCount(content) == CountToken(content, "^")
IndexLinkCount(content) == CountToken(content, "[[_Highlights/")

\* C1: two runs in succession against the same remote books and highlights
\* and the same settings: after the second run every file of the vault has
\* the content it had after the first run.
C1_SecondRunIdentical ==
    (pc = "idle" /\ hist.runs >= 2) => vault = hist.snapshot

\* (not a claim) the same, for remote data in which every highlight has an id
AllListedHighlightsHaveIds ==
    \A i \in 1..Len(remoteBooks.list) :
        \A j \in 1..Len(remoteHl[remoteBooks.list[i]].list) :
            HlCatalog[remoteHl[remoteBooks.list[i]].list[j]].has_id
SecondRunIdenticalWithIds ==
    (pc = "idle" /\ hist.runs >= 2 /\ AllListedHighlightsHaveIds) => vault = hist.snapshot

\* C2: a failure in one book does not end the run: the books are attempted
\* once each, in fetch order, and at the report successCount + errorCount is
\* the number of books fetched.
C2_EveryBookAttemptedOnce ==
    /\ (pc = "loop" /\ bookIdx <= Len(books) + 1) =>
          /\ hist.attempted = SubSeq(books, 1, bookIdx - 1)
          /\ successCount + errorCount = bookIdx - 1
    /\ Reported =>
          /\ hist.report.attempted = hist.report.books
          /\ hist.report.success + hist.report.failed = Len(hist.report.books)
    /\ (RunOver /\ hist.report.kind # "summary") => hist.report.attempted = <<>>

\* a report of a run whose first book failed and whose second book succeeded
C2_Witness ==
    /\ Reported
    /\ Len(hist.report.books) >= 2
    /\ hist.report.failed >= 1
    /\ hist.report.success >= 1
    /\ hist.lastBook.outcome = "ok"

\* C3: a book with N >= 1 highlights: aggregate mode writes one note with N
\* list items; per-highlight mode writes N individual notes under
\* _Highlights and the main note, whose index holds one link per highlight.
NotesWritten ==
    {hist.written[i].path : i \in 1..(Len(hist.written) - 1)}
LastWrite == hist.written[Len(hist.written)]
C3_ModeSwitch ==
    BookOver =>
       LET n == Len(hist.lastBook.highlights)
       IN IF hist.lastBook.perHighlight
          THEN /\ Cardinality(NotesWritten) = n
               /\ \A q \in NotesWritten :
                     IsUnder(hist.lastBook.folder \o <<"/", "_Highlights">>, q)
               /\ \A q \in NotesWritten : q \in DOMAIN vault /\ vault[q].kind = "file"
               /\ LastWrite.path = hist.lastBook.mainPath
               /\ IndexLinkCount(LastWrite.content) = n
          ELSE /\ Len(hist.written) = 1
               /\ LastWrite.path = hist.lastBook.mainPath
               /\ ListItemCount(LastWrite.content) = n

\* (not a claim) what holds of the writes: one createOrUpdateFile per highlight
ModeSwitchWrites ==
    (BookOver /\ hist.lastBook.perHighlight) =>
        /\ Len(hist.written) = Len(hist.lastBook.highlights) + 1
        /\ IndexLinkCount(LastWrite.content) = Len(hist.lastBook.highlights)
\* (not a claim) C3 for highlights whose note paths differ pairwise
DistinctNotePaths ==
    \A i, j \in 1..Len(hist.lastBook.highlights) :
        i # j => noteFileNameOf(HlCatalog[hist.lastBook.highlights[i]])
                 # noteFileNameOf(HlCatalog[hist.lastBook.highlights[j]])
ModeSwitchWhenPathsDiffer ==
    (BookOver /\ hist.lastBook.perHighlight /\ DistinctNotePaths) => C3_ModeSwitch

\* ================================================ claims on request()
Answered == req.pc = "done" /\ req.response # ReqIdle.response
SuccessStatus == req.response.status >= 200 /\ req.response.status < 300

\* C8: for a response with status in [200,300), request() returns null when
\* the status is 204 or the body text is empty, otherwise the parsed body;
\* a non-empty body that is not JSON makes the call fail.
C8_SuccessBody ==
    (Answered /\ SuccessStatus) =>
        IF req.response.status = 204 \/ req.response.text = <<>>
        THEN req.outcome = Returned(JNull)
        ELSE IF JSONParse(req.response.text).ok
        THEN req.outcome = Returned(JSONParse(req.response.text).value)
        ELSE req.outcome.kind = "throw"
\* a 204 with a body that would parse
C8_Witness ==
    /\ Answered
    /\ req.response = [status |-> 204, text |-> <<T_Books1>>]
    /\ req.outcome = Returned(JNull)

HasField(v, name) == v.kind = "object" /\ name \in DOMAIN v.fields

\* C9 as stated: for a response with status outside [200,300), request()
\* fails with an error carrying the status and, as message, the body's
\* detail field when the body parses and has one, the raw body otherwise.
C9_DetailWhenPresent ==
    (Answered /\ ~SuccessStatus) =>
        LET p == JSONParse(req.response.text)
        IN req.outcome =
             Thrown(ApiError(req.response.status,
                             IF p.ok /\ HasField(p.value, "detail")
                             THEN p.value.fields["detail"]
                             ELSE JStr(req.response.text)))

\* C9, amended: the message is the detail field when the body parses and its
\* detail is not empty (truthy); in every other case it is the raw body.
C9_DetailWhenTruthy ==
    (Answered /\ ~SuccessStatus) =>
        LET p == JSONParse(req.response.text)
        IN /\ req.outcome.kind = "throw"
           /\ req.outcome.error.type = "ApiError"
           /\ req.outcome.error.status = req.response.status
           /\ req.outcome.error.message =
                IF p.ok /\ HasField(p.value, "detail") /\ Truthy(p.value.fields["detail"])
                THEN p.value.fields["detail"]
                ELSE JStr(req.response.text)
\* an error status whose body has an empty detail
C9_Witness ==
    /\ Answered
    /\ req.response = [status |-> 404, text |-> <<T_DetailEmpty>>]
    /\ req.outcome = Thrown(ApiError(404, JStr(<<T_DetailEmpty>>)))

\* =================================================== claims on chat()
RECURSIVE Flatten(_)
Flatten(ss) == IF ss = <<>> THEN <<>> ELSE Head(ss) \o Flatten(Tail(ss))

Streamed == chat.pc = "done" /\ chat.streaming /\ chat.result.kind = "return"
Priority == <<"content", "answer", "delta">>
FirstOf(S) == CHOOSE i \in S : \A j \in S : i <= j

\* the payloads that parse to something else than null
ParsedPayloads == {t \in PayloadTokens : JSONParse(<<t>>).ok /\ JSONParse(<<t>>).value # JNull}

\* the text of the first of content, answer, delta the payload has, else the
\* payload itself if it is a string
TextByPresence(v) ==
    LET has == {i \in 1..3 : HasField(v, Priority[i])}
    IN IF has # {} THEN TextOf(v.fields[Priority[FirstOf(has)]])
       ELSE IF v.kind = "string" THEN v.str ELSE <<>>

\* the same with an empty field counting as absent
TextByTruthiness(v) ==
    LET has == {i \in 1..3 : HasField(v, Priority[i]) /\ Truthy(v.fields[Priority[i]])}
    IN IF has # {} THEN TextOf(v.fields[Priority[FirstOf(has)]])
       ELSE IF v.kind = "string" THEN v.str ELSE <<>>

OneCallPerLine ==
    /\ Len(chat.emissions) = Len(chat.delivered)
    /\ \A i \in 1..Len(chat.emissions) : Len(chat.emissions[i]) <= 1

\* C4 as stated: the text emitted for a line "data: <payload>" is that of the
\* first of content, answer, delta, bare string that the payload has, and
\* no line makes more than one onChunk call.
C4_FirstPresentWins ==
    /\ OneCallPerLine
    /\ \A i \in 1..Len(chat.emissions) : \A t \in ParsedPayloads :
          chat.delivered[i] = StdLine(t) =>
             Flatten(chat.emissions[i]) = TextByPresence(JSONParse(<<t>>).value)

\* C4, amended: the first of content, answer, delta that is not empty wins,
\* then the bare string; a payload that parses to null is treated like one
\* that does not parse (dropped by the fetch revision, emitted as raw text
\* by the requestUrl revision); no line makes more than one onChunk call.
C4_FirstTruthyWins ==
    /\ OneCallPerLine
    /\ \A i \in 1..Len(chat.emissions) :
          /\ \A t \in ParsedPayloads :
                chat.delivered[i] = StdLine(t) =>
                   Flatten(chat.emissions[i]) = TextByTruthiness(JSONParse(<<t>>).value)
          /\ chat.delivered[i] = StdLine(T_Null) =>
                chat.emissions[i] = IF chat.impl = "fetch" THEN <<>> ELSE << <<T_Null>> >>
\* a payload with all three fields, and one whose content is empty
C4_Witness ==
    /\ Streamed
    /\ chat.delivered = <<StdLine(T_All), StdLine(T_EmptyContent)>>
    /\ chat.emissions = << << <<"C">> >>, << <<"A">> >> >>

\* C5: the accumulated answer is at every point the concatenation of the
\* chunks handed to onChunk so far, and the answer a streaming call returns
\* is the concatenation of all of them.
C5_AnswerIsConcatenation ==
    /\ chat.acc.fullAnswer = Flatten(chat.acc.onChunkCalls)
    /\ Streamed => chat.result.value.answer = Flatten(chat.acc.onChunkCalls)
\* Hel, lo, [DONE] give "Hello"
C5_Witness ==
    /\ Streamed
    /\ chat.delivered = <<StdLine(T_Hel), StdLine(T_Lo), StdLine(T_Done)>>
    /\ chat.acc.onChunkCalls = << <<"H", "e", "l">>, <<"l", "o">> >>
    /\ chat.result.value.answer = <<"H", "e", "l", "l", "o">>

IsDoneLine(line) ==
    /\ StartsWith(Trim(line), DataPrefix)
    /\ Trim(Slice(Trim(line), 5)) = <<T_Done>>

\* C6: a line whose payload is [DONE] makes no onChunk call and adds no
\* text to the answer, and the lines after it are decoded as they would be
\* without it.
C6_DoneIsSilent ==
    /\ Len(chat.emissions) = Len(chat.delivered)
    /\ \A i \in 1..Len(chat.emissions) :
          IF IsDoneLine(chat.delivered[i])
          THEN chat.emissions[i] = <<>>
          ELSE chat.emissions[i] = decodeLine(chat.impl, NoAcc, chat.delivered[i]).onChunkCalls
    /\ chat.acc.onChunkCalls =
          Flatten([i \in 1..Len(chat.emissions) |->
                      IF IsDoneLine(chat.delivered[i]) THEN <<>> ELSE chat.emissions[i]])
\* a [DONE] line between two content lines
C6_Witness ==
    /\ Streamed
    /\ chat.delivered = <<StdLine(T_Hel), StdLine(T_Done), StdLine(T_Lo)>>
    /\ chat.result.value.answer = <<"H", "e", "l", "l", "o">>

IdsOf(booksValue) == {Get(booksValue.items[i], "id") : i \in 1..Len(booksValue.items)}
IndexOf(log, entry) == {i \in 1..Len(log) : log[i] = entry}

C10_ReadFailureKeepsChunks ==
    [][(chat'.reader = "failed" /\ chat.reader # "failed") =>
          /\ chat'.result = Thrown(ChatFailure(StreamReadError))
          /\ chat'.acc.onChunkCalls = chat.acc.onChunkCalls
          /\ chat'.acc.fullAnswer = chat.acc.fullAnswer]_vars
\* the reader failed after two chunks
C10_Witness ==
    /\ chat.reader = "failed"
    /\ chat.result = Thrown(ChatFailure(StreamReadError))
    /\ chat.acc.onChunkCalls = << <<"H", "e", "l">>, <<"l", "o">> >>

\* C11: a chat call that fails through a network or parse failure (of the
\* book-list lookup, of the POST, of the stream) rejects with the chat
\* failure that wraps the cause, never with the bare cause.
C11_FailuresWrapped ==
    (chat.pc = "done" /\ chat.result.kind = "throw") =>
        chat.result.error.type \notin {"TransportError", "ApiError", "SyntaxError"}

\* (not C11) the failures after the book was found are wrapped
FailuresAfterLookupWrapped ==
    (chat.pc = "done" /\ chat.result.kind = "throw" /\ IndexOf(chat.log, "POST /chat") # {}) =>
        chat.result.error.type = "ChatFailure"

\* ================================= claims on the client's argument checks
\* C12: listHighlights with an empty bookId, and chat with an empty bookId or
\* an empty prompt, reject with the invalid-argument error, and the call
\* hands no request to the HTTP executor.
C12_EmptyArgumentsRejected ==
    /\ (req.caller = "listHighlights" /\ req.bookId = <<>>) =>
          /\ req.pc = "done"
          /\ req.outcome = Thrown(InvalidArgument)
          /\ ~req.handed
    /\ (chat.pc # "idle" /\ (chat.bookId = <<>> \/ chat.prompt = <<>>)) =>
          /\ chat.pc = "done"
          /\ chat.result = Thrown(InvalidArgument)
          /\ chat.log = <<>>
\* listHighlights("") and chat("b1", "") were both called
C12_Witness ==
    /\ req.caller = "listHighlights" /\ req.bookId = <<>>
    /\ req.outcome = Thrown(InvalidArgument)
    /\ chat.bookId = Str_b1 /\ chat.prompt = <<>>
    /\ chat.result = Thrown(InvalidArgument)

\* =========================================== claims on the stream decode
\* the payload a revision takes from a line: none, or one
DataPayload(impl, line) ==
    IF impl = "fetch"
    THEN (IF StartsWith(line, DataPrefix \o <<" ">>) THEN <<Slice(line, 6)>> ELSE <<>>)
    ELSE (IF StartsWith(Trim(line), DataPrefix) /\ Trim(Slice(Trim(line), 5)) # <<>>
          THEN <<Trim(Slice(Trim(line), 5))>> ELSE <<>>)
FailsParsing(impl, line) ==
    /\ DataPayload(impl, line) # <<>>
    /\ DataPayload(impl, line)[1] # <<T_Done>>
    /\ ~JSONParse(DataPayload(impl, line)[1]).ok

\* C13: a payload that does not parse does not end the decode: the lines
\* after it emit what they emit on their own and the call returns unless
\* the reader fails; and all such payloads of a stream are handled by one
\* policy, dropped or emitted as their raw text.
C13_ParseFailureGoesOn ==
    /\ Len(chat.emissions) = Len(chat.delivered)
    /\ \E policy \in {"drop", "raw"} :
          \A i \in 1..Len(chat.emissions) :
             FailsParsing(chat.impl, chat.delivered[i]) =>
                chat.emissions[i] = IF policy = "drop" THEN <<>>
                                    ELSE DataPayload(chat.impl, chat.delivered[i])
    /\ \A i \in 1..Len(chat.emissions) :
          ~FailsParsing(chat.impl, chat.delivered[i]) =>
             chat.emissions[i] = decodeLine(chat.impl, NoAcc, chat.delivered[i]).onChunkCalls
    /\ (chat.pc = "done" /\ chat.delivered # <<>> /\ chat.reader # "failed") =>
          chat.result.kind = "return"
\* two payloads that do not parse around one that does
C13_Witness ==
    /\ Streamed
    /\ chat.delivered = <<StdLine(T_Oops), StdLine(T_Hel), StdLine(T_Oops)>>
    /\ chat.acc.onChunkCalls \in { << <<"H", "e", "l">> >>,
                                   << <<T_Oops>>, <<"H", "e", "l">>, <<T_Oops>> >> }

\* the elements of the cited_chapters array of a line's payload
CitedIn(impl, line) ==
    LET pl == DataPayload(impl, line)
        v == JSONParse(pl[1]).value
    IN IF pl # <<>> /\ pl[1] # <<T_Done>> /\ JSONParse(pl[1]).ok
          /\ HasField(v, "cited_chapters") /\ v.fields["cited_chapters"].kind = "array"
       THEN v.fields["cited_chapters"].items
       ELSE <<>>
CitedInStream ==
    UNION {Range(CitedIn(chat.impl, chat.delivered[i])) : i \in 1..Len(chat.delivered)}

NoChapterEmitted ==
    \A i \in 1..Len(chat.emissions) :
       /\ chat.delivered[i] = StdLine(T_Cited) => chat.emissions[i] = <<>>
       /\ chat.delivered[i] = StdLine(T_LoCited) => chat.emissions[i] = << <<"l", "o">> >>

\* C14 as stated: the cited_chapters of a streaming result are exactly the
\* chapter numbers named in the cited_chapters arrays of the stream's
\* payloads, each once; and no chapter is handed to onChunk.
C14_CitedChaptersExact ==
    /\ Streamed =>
          LET cited == chat.result.value.cited_chapters
          IN /\ Range(cited) = {c \in CitedInStream : c.kind = "number"}
             /\ Len(cited) = Cardinality(Range(cited))
    /\ NoChapterEmitted

\* C14, amended: the same for streams whose cited_chapters arrays hold
\* numbers only; of an array with other elements the requestUrl revision
\* keeps the numbers, the fetch revision keeps every element, each once.
C14_CitedChaptersOfNumberArrays ==
    /\ Streamed =>
          LET cited == chat.result.value.cited_chapters
          IN /\ Range(cited) = IF chat.impl = "fetch" THEN CitedInStream
                               ELSE {c \in CitedInStream : c.kind = "number"}
             /\ Len(cited) = Cardinality(Range(cited))
    /\ NoChapterEmitted
\* chapters 1 and 2 named twice
C14_Witness ==
    /\ Streamed
    /\ chat.delivered = <<StdLine(T_Cited), StdLine(T_Hel), StdLine(T_Cited)>>
    /\ chat.result.value.cited_chapters = <<JNum(1), JNum(2)>>
    /\ chat.acc.onChunkCalls = << <<"H", "e", "l">> >>

\* the text a line bears: that of its payload's first non-empty field or of
\* the bare string, <<>> when it bears none
ContentText(impl, line) ==
    LET pl == DataPayload(impl, line)
        p == JSONParse(pl[1])
    IN IF pl # <<>> /\ pl[1] # <<T_Done>> /\ p.ok /\ p.value # JNull
       THEN TextByTruthiness(p.value)
       ELSE <<>>
ContentBearing(impl, line) == ContentText(impl, line) # <<>>
RECURSIVE ContentTexts(_, _)
ContentTexts(impl, lines) ==
    IF lines = <<>> THEN <<>>
    ELSE (IF ContentBearing(impl, Head(lines)) THEN <<ContentText(impl, Head(lines))>>
          ELSE <<>>) \o ContentTexts(impl, Tail(lines))

NoHighlightsMessage(perHighlight) ==
    IF perHighlight THEN "No highlights found for this book.\n"
    ELSE "(No highlights found or synced for this book.)\n"

\* C16: the sync of a book whose highlight list is empty or null writes one
\* file, the main note with the no-highlights message of the mode, and
\* creates nothing else than the book's folder: no _Highlights folder and
\* no note under it.
C16_EmptyBookOneNote ==
    (hist.lastBook.outcome = "ok" /\ remoteHl[hist.lastBook.key].list = <<>>) =>
        LET book == BookCatalog[hist.lastBook.key]
            mainPath == mainBookFilePathOf(settings.bookriseSyncFolder, book)
        IN /\ Len(hist.written) = 1
           /\ hist.written[1].path = mainPath
           /\ mainPath \in DOMAIN vault
           /\ vault[mainPath] = FileEntry(hist.written[1].content)
           /\ CountToken(hist.written[1].content,
                         NoHighlightsMessage(settings.createNotePerHighlight)) = 1
           /\ DOMAIN vault \ DOMAIN hist.lastBook.before
                 \subseteq {bookFolderPathOf(settings.bookriseSyncFolder, book), mainPath}
           /\ \A q \in DOMAIN hist.lastBook.before :
                 q # mainPath => vault[q] = hist.lastBook.before[q]
\* a null list in per-highlight mode
C16_Witness ==
    /\ hist.lastBook.outcome = "ok"
    /\ remoteHl[hist.lastBook.key].isNull
    /\ settings.createNotePerHighlight
    /\ Len(hist.written) = 1

\* C17: in a run with a non-empty book list the root sync folder is ensured
\* before any book is synced: while a book is synced the folder is there; it
\* is created when absent; and when a file occupies its path the whole run
\* fails: it reports the error, no book is attempted (so no highlights are
\* fetched) and the vault is left as the run found it.
FileAtRoot(v) ==
    settings.bookriseSyncFolder \in DOMAIN v /\ v[settings.bookriseSyncFolder].kind = "file"
RootIsFolder(v) ==
    settings.bookriseSyncFolder \in DOMAIN v /\ v[settings.bookriseSyncFolder].kind = "folder"
C17_RootEnsuredFirst ==
    /\ hist.attempted # <<>> => RootIsFolder(vault)
    /\ (RunOver /\ hist.report.books # <<>> /\ FileAtRoot(hist.snapshot)) =>
          /\ hist.report.kind = "error"
          /\ hist.report.attempted = <<>>
          /\ vault = hist.snapshot

\* the same for the sync folder "S", whose name does not hold the text
\* "Folder already exists"
RootEnsuredFirstForS ==
    settings.bookriseSyncFolder = SyncFolder =>
       /\ hist.attempted # <<>> => RootIsFolder(vault)
       /\ (RunOver /\ hist.report.books # <<>> /\ FileAtRoot(hist.snapshot)) =>
             /\ hist.report.kind = "error"
             /\ hist.report.attempted = <<>>
             /\ vault = hist.snapshot
RootCollisionForS ==
    /\ settings.bookriseSyncFolder = SyncFolder
    /\ RunOver /\ hist.report.books # <<>> /\ FileAtRoot(hist.snapshot)
RootCreatedForS ==
    /\ settings.bookriseSyncFolder = SyncFolder
    /\ hist.attempted # <<>> /\ SyncFolder \notin DOMAIN hist.snapshot

\* C18: when listBooks returns an empty list or null, the run ends reporting
\* that no books were found, with zero books processed: at no step of the run
\* is a folder created (the root sync folder included) or a file written, and
\* no book is attempted, so no highlights are fetched.
NoBooksAnswer == remoteBooks.status \in {"ok", "null"} /\ remoteBooks.list = <<>>
C18_NoBooksNoEffect ==
    NoBooksAnswer =>
       /\ pc \in {"idle", "listBooks"}
       /\ vault = hist.snapshot
       /\ hist.attempted = <<>> /\ hist.written = <<>>
       /\ RunOver => /\ hist.report.kind = "nobooks"
                     /\ hist.report.attempted = <<>>
                     /\ hist.report.success = 0 /\ hist.report.failed = 0
C18_Witness ==
    /\ RunOver /\ remoteBooks.status = "ok" /\ remoteBooks.list = <<>>
    /\ settings.bookriseSyncFolder \notin DOMAIN vault
    /\ hist.report.kind = "nobooks"
NullBooksWitness ==
    /\ RunOver /\ remoteBooks.status = "null"
    /\ settings.bookriseSyncFolder \notin DOMAIN vault
    /\ hist.report.kind = "nobooks"

\* ================================================ claims on the paths
NoForbiddenChar(s) == \A i \in 1..Len(s) : s[i] \notin ForbiddenChars
SingleBlanks(s) ==
    \A i \in 1..Len(s) :
       s[i] \in Whitespace => s[i] = " " /\ (i > 1 => s[i - 1] \notin Whitespace)
Kept(s) == SelectSeq(s, LAMBDA c : c \notin ForbiddenChars \cup Whitespace \cup {"-"})
NoDoubleSlash(path) == \A i \in 1..(Len(path) - 1) : ~(path[i] = "/" /\ path[i + 1] = "/")
ForbiddenCount(s) == Len(SelectSeq(s, LAMBDA c : c \in ForbiddenChars))

\* the folder name has no forbidden character and no white space but single
\* blanks, one '-' per forbidden character, and the other characters as
\* they were
SanitizedNameClean ==
    built.state = "built" =>
       /\ NoForbiddenChar(built.bookFolderName)
       /\ SingleBlanks(built.bookFolderName)
       /\ CountToken(built.bookFolderName, "-") = ForbiddenCount(built.title)
       /\ Kept(built.bookFolderName) = Kept(built.title)

\* C19: sanitizeFileName replaces each of / \ : * ? " < > | by '-' and every
\* run of white space by one blank, so the folder name of a title holds none
\* of those characters; and the folder paths and note paths built of the
\* sync folder setting and the sanitized title hold no double slash,
\* whatever the sync folder setting.
C19_SanitizedPaths ==
    built.state = "built" =>
       /\ NoForbiddenChar(built.bookFolderName)
       /\ SingleBlanks(built.bookFolderName)
       /\ CountToken(built.bookFolderName, "-") = ForbiddenCount(built.title)
       /\ Kept(built.bookFolderName) = Kept(built.title)
       /\ NoDoubleSlash(built.bookFolderPath)
       /\ NoDoubleSlash(built.mainBookFilePath)
       /\ NoDoubleSlash(built.highlightsFolder)
       /\ NoDoubleSlash(built.noteFilePath)

\* the paths hold no double slash when the sync folder setting holds none
\* and does not end with a slash, and the title is not empty
PlainFolder(f) == NoDoubleSlash(f) /\ f[Len(f)] # "/"
PathsOfPlainFolders ==
    (built.state = "built" /\ PlainFolder(settings.bookriseSyncFolder) /\ built.title # <<>>) =>
       /\ NoDoubleSlash(built.bookFolderPath)
       /\ NoDoubleSlash(built.mainBookFilePath)
       /\ NoDoubleSlash(built.highlightsFolder)
       /\ NoDoubleSlash(built.noteFilePath)
\* a folder path with a double slash left
DoubleSlashInFolderPath == built.state = "built" => NoDoubleSlash(built.bookFolderPath)
DoubleSlashInHighlightsFolder ==
    (built.state = "built" /\ PlainFolder(settings.bookriseSyncFolder)) =>
        NoDoubleSlash(built.highlightsFolder)

\* ===================================== further claims on the sync (2)
\* C20: after a successful sync of a book, the main note holds exactly the
\* content the sync generated and wrote last, whatever the file held when
\* the sync of the book began: nothing of the earlier content is kept.
C20_MainNoteOverwritten ==
    hist.lastBook.outcome = "ok" =>
       LET mainPath == mainBookFilePathOf(settings.bookriseSyncFolder,
                                          BookCatalog[hist.lastBook.key])
       IN /\ hist.written # <<>>
          /\ LastWrite.path = mainPath
          /\ mainPath \in DOMAIN vault
          /\ vault[mainPath] = FileEntry(LastWrite.content)
          /\ CountToken(vault[mainPath].content, "user edit") = 0
C20_Witness ==
    /\ hist.lastBook.outcome = "ok"
    /\ hist.lastBook.mainPath \in DOMAIN hist.lastBook.before
    /\ hist.lastBook.before[hist.lastBook.mainPath] = FileEntry(<<"user edit">>)
    /\ Len(hist.lastBook.highlights) >= 1

\* ===================================== claims on runs with settings updates
\* C21: no step of a sync run deletes or renames a file or a folder: every
\* path of the vault is still there after the step, as a file if it was a
\* file and as a folder if it was a folder.  So the note of a highlight
\* removed at the remote, and the notes under _Highlights after a switch to
\* the aggregate mode, stay in the vault run after run.
C21_NothingDeleted ==
    [][\A q \in DOMAIN vault : q \in DOMAIN vault' /\ vault'[q].kind = vault[q].kind]_vars
HighlightNotes == {q \in DOMAIN vault : \E f \in DOMAIN vault :
                      f # <<>> /\ f[Len(f)] = "_Highlights" /\ IsUnder(f, q)}
\* two runs over, the second in aggregate mode, with notes of the first left
C21_Witness ==
    /\ RunOver /\ hist.runs = 2 /\ hist.report.kind = "summary"
    /\ hist.report.success >= 1
    /\ hist.modes = {FALSE}
    /\ HighlightNotes # {}
\* two runs over, a highlight removed in between, its note left
OrphanAfterRemoval ==
    /\ RunOver /\ hist.runs = 2 /\ hist.report.kind = "summary"
    /\ hist.modes = {TRUE} /\ hist.updates = 0
    /\ hist.report.success = Len(hist.report.books)
    /\ Cardinality(HighlightNotes) >
         Cardinality(UNION {Range(remoteHl[k].list) : k \in Range(remoteBooks.list)})

\* C22: the configuration is read-only during a run: all reads of the sync
\* folder and all reads of the mode flag of one run give one value, also
\* when the settings tab saves an update between two awaits of the run.
C22_OneConfigurationPerRun ==
    /\ Cardinality(hist.folders) <= 1
    /\ Cardinality(hist.modes) <= 1
\* the same for runs during which no setting is saved
OneConfigurationWithoutUpdates ==
    hist.updates = 0 => Cardinality(hist.folders) <= 1 /\ Cardinality(hist.modes) <= 1
OneModePerRun == Cardinality(hist.modes) <= 1
OneFolderPerRun == Cardinality(hist.folders) <= 1

\* ===================================== further claims on the sync (3)
\* lines 455-461: the aggregate note of a book for its highlights in an order
AggregateNote(book, order, rnd) ==
    generateBookFrontmatter(book) \o <<"# ">> \o book.title \o <<NL, NL>>
    \o <<"# Highlights for ">> \o book.title \o <<NL, NL>>
    \o Join([i \in 1..Len(order) |->
               formatSingleHighlightAsListItem(HlCatalog[order[i]], rnd[i])], <<>>)
\* created_at, as a number: "t1" is earlier than "t2"
CreatedAt(k) ==
    IF HlCatalog[k].created_at = <<"t1">> THEN 1
    ELSE IF HlCatalog[k].created_at = <<"t2">> THEN 2 ELSE 0
Chronological(order) ==
    \A i, j \in 1..Len(order) :
       (i < j /\ CreatedAt(order[i]) # 0 /\ CreatedAt(order[j]) # 0) =>
           CreatedAt(order[i]) <= CreatedAt(order[j])
Orders(list) == {o \in SeqsNoRep(Range(list), Len(list)) : Len(o) = Len(list)}
AggregateOver ==
    /\ hist.lastBook.outcome = "ok" /\ ~hist.lastBook.perHighlight
    /\ hist.lastBook.highlights # <<>>

\* C23: in single-file mode the book's note lists all highlights of the
\* book in the chronological order of their creation times.
C23_ChronologicalOrder ==
    AggregateOver =>
       \E order \in Orders(hist.lastBook.highlights) :
          /\ Chronological(order)
          /\ \E rnd \in [1..Len(order) -> RandomIds] :
                LastWrite.content = AggregateNote(BookCatalog[hist.lastBook.key], order, rnd)
\* the note lists all highlights in the order listHighlights returned them
ListedAsReturned ==
    AggregateOver =>
       \E rnd \in [1..Len(hist.lastBook.highlights) -> RandomIds] :
          LastWrite.content =
              AggregateNote(BookCatalog[hist.lastBook.key], hist.lastBook.highlights, rnd)

\* ================================ claims on overlapping invocations
\* C24: writes to one file path are serialized: between the lookup of one
\* createOrUpdateFile invocation and the end of its create or modify, no
\* other invocation for the same path is under way, also when the sync
\* command is triggered while an earlier run awaits.
C24_WritesSerialized ==
    \A r1, r2 \in Runs :
       (r1 # r2 /\ writers[r1].pc # "idle" /\ writers[r2].pc # "idle") =>
           writers[r1].path # writers[r2].path
\* no vault.create of a note throws on a path that was free at the lookup
NoCreateThrows == \A r \in Runs : writers[r].content # <<"threw">>
\* a single run's invocations are serialized
OneRunSerialized ==
    (\A r \in Runs : r # 1 => writers[r].n = 0) => C24_WritesSerialized

\* ===================================== further claims on the sync (4)
PerHighlightOver ==
    /\ hist.lastBook.outcome = "ok" /\ hist.lastBook.perHighlight
    /\ hist.lastBook.highlights # <<>>
IdOf(k) == HlCatalog[k].id
\* C25: in per-highlight mode two highlights of a book with different ids
\* are written to different note paths, so that no note of the run is
\* overwritten by the note of another highlight.
C25_DistinctNotePaths ==
    PerHighlightOver =>
       \A i, j \in 1..Len(hist.lastBook.highlights) :
          (i < j /\ IdOf(hist.lastBook.highlights[i]) # IdOf(hist.lastBook.highlights[j])) =>
              /\ hist.written[i].path # hist.written[j].path
              /\ vault[hist.written[i].path].content = hist.written[i].content
\* the same for ids that differ within their first IdPrefixLen characters
DistinctPrefixesDistinctPaths ==
    PerHighlightOver =>
       \A i, j \in 1..Len(hist.lastBook.highlights) :
          (i < j /\ Substring0(IdOf(hist.lastBook.highlights[i]), IdPrefixLen)
                      # Substring0(IdOf(hist.lastBook.highlights[j]), IdPrefixLen)) =>
              /\ hist.written[i].path # hist.written[j].path
              /\ vault[hist.written[i].path].content = hist.written[i].content
TwoNotesWritten ==
    /\ PerHighlightOver /\ Len(hist.lastBook.highlights) = 2
    /\ hist.written[1].path # hist.written[2].path

\* ========================================= claims on the stream text
\* the lines with the prefix data:, each as "data: " and its payload with
\* the white space around it stripped; the other lines left out
PayloadLines(text) ==
    LET ls == SplitNL(text)
        withPrefix == SelectSeq(ls, LAMBDA l : StartsWith(l, DataPrefix))
    IN Join([i \in 1..Len(withPrefix) |->
                DataPrefix \o <<" ">> \o Trim(Slice(withPrefix[i], 5)) \o <<NL>>], <<>>)
Decoded == wire.state = "decoded"
\* C26: a line carries a payload exactly when it begins with data:, the
\* payload being the rest of the line without the white space around it:
\* the stream is decoded as the stream of its data: lines written as
\* "data: <payload>" is, lines without the prefix being ignored.
C26_PrefixAndTrim ==
    Decoded => wire.whole = decodeReads(wire.impl, <<PayloadLines(wire.text)>>)
\* the requestUrl revision, for streams without a blank before data:
LinesFlushLeft(text) == \A i \in 1..Len(text) :
                           text[i] = " " => (i > 1 /\ text[i - 1] # NL)
PrefixAndTrimRequestUrl ==
    (Decoded /\ wire.impl = "requestUrl" /\ LinesFlushLeft(wire.text)) =>
        wire.whole = decodeReads(wire.impl, <<PayloadLines(wire.text)>>)
\* the fetch revision, for streams whose data: lines have a blank after the colon
BlankAfterPrefix(text) ==
    \A l \in Range(SplitNL(text)) : StartsWith(l, DataPrefix) => StartsWith(l, DataPrefix \o <<" ">>)
PrefixWithBlankFetch ==
    (Decoded /\ wire.impl = "fetch" /\ BlankAfterPrefix(wire.text)) =>
        wire.whole = decodeReads(wire.impl, <<PayloadLines(wire.text)>>)

\* C27: the result of the decode depends on the text of the stream only, not
\* on its division into reads: the onChunk calls and the answer of the two
\* reads are those of the one read.
C27_SplitIndependent ==
    Decoded => /\ wire.parts.onChunkCalls = wire.whole.onChunkCalls
               /\ wire.parts.fullAnswer = wire.whole.fullAnswer
\* the same for reads that end at the end of a line, and for the requestUrl
\* revision
CutAtLineEnd == wire.cut = 0 \/ wire.text[wire.cut] = NL
SplitIndependentAtLineEnds ==
    (Decoded /\ (wire.impl = "requestUrl" \/ CutAtLineEnd)) =>
        /\ wire.parts.onChunkCalls = wire.whole.onChunkCalls
        /\ wire.parts.fullAnswer = wire.whole.fullAnswer

\* ------------------------------------------------------------------ C28
\* the note names of the links `[[_Highlights/<name>|<label>]]` in a text
RECURSIVE LinkNames(_)
LinkNames(s) ==
    IF s = <<>> THEN <<>>
    ELSE IF Head(s) = "[[_Highlights/"
    THEN LET rest == Tail(s)
             k == CHOOSE i \in 1..(Len(rest) + 1) :
                     /\ i = Len(rest) + 1 \/ rest[i] = "|"
                     /\ \A j \in 1..(i - 1) : rest[j] # "|"
         IN <<SubSeq(rest, 1, k - 1)>> \o LinkNames(SubSeq(rest, k, Len(rest)))
    ELSE LinkNames(Tail(s))

\* the files the links of a note in `folder` point to
LinkTargets(folder, content) ==
    {folder \o <<"/", "_Highlights", "/">> \o name \o <<".md">> :
        name \in Range(LinkNames(content))}

PerHighlightBook ==
    /\ hist.lastBook.key # "none"
    /\ hist.lastBook.perHighlight
    /\ hist.lastBook.highlights # <<>>

NoteWriteFailed ==
    /\ PerHighlightBook
    /\ hist.lastBook.outcome = "failed"
    /\ hist.lastBook.highlights = <<"H1", "H2">>
    /\ hist.written = <<>>
    /\ vault[noteFilePathOf(highlightsFolderOf(hist.lastBook.folder), HlCatalog["H1"])].kind
          = "folder"
\* the first note was written, the second highlight has no id and its
\* iteration threw: the book ended without its main note
SecondNoteFailed ==
    /\ PerHighlightBook
    /\ hist.lastBook.outcome = "failed"
    /\ hist.lastBook.highlights = <<"H1", "H3">>
    /\ Len(hist.written) = 1
    /\ hist.lastBook.mainPath \notin DOMAIN vault

\* ------------------------------------------------------------------ C29
\* C29: two books of a run with different ids never have the same book
\* folder or the same main-note path.
C29_DistinctBookPaths ==
    \A i, j \in 1..Len(books) :
        BookCatalog[books[i]].id # BookCatalog[books[j]].id =>
            /\ bookFolderPathOf(settings.bookriseSyncFolder, BookCatalog[books[i]])
                 # bookFolderPathOf(settings.bookriseSyncFolder, BookCatalog[books[j]])
            /\ mainBookFilePathOf(settings.bookriseSyncFolder, BookCatalog[books[i]])
                 # mainBookFilePathOf(settings.bookriseSyncFolder, BookCatalog[books[j]])
\* the paths are those of the sanitized title: books whose sanitized titles
\* differ have different folders and main notes
DistinctNamesDistinctPaths ==
    \A i, j \in 1..Len(books) :
        sanitizeFileName(BookCatalog[books[i]].title)
          # sanitizeFileName(BookCatalog[books[j]].title) =>
            /\ bookFolderPathOf(settings.bookriseSyncFolder, BookCatalog[books[i]])
                 # bookFolderPathOf(settings.bookriseSyncFolder, BookCatalog[books[j]])
            /\ mainBookFilePathOf(settings.bookriseSyncFolder, BookCatalog[books[i]])
                 # mainBookFilePathOf(settings.bookriseSyncFolder, BookCatalog[books[j]])
\* a run reported two successes and the main note the first book wrote now
\* holds the content of the second book
OverwrittenByOtherBook ==
    /\ hist.report.kind = "summary"
    /\ hist.report.success = 2
    /\ hist.report.books = <<"B2", "B3">>
    /\ LET p == mainBookFilePathOf(settings.bookriseSyncFolder, BookCatalog["B2"])
       IN /\ p \in DOMAIN vault
          /\ vault[p].kind = "file"
          /\ CountToken(vault[p].content, "# ") >= 1
          /\ \E k \in 1..Len(vault[p].content) :
                SubSeq(vault[p].content, k, k + Len(BookCatalog["B3"].title))
                   = <<"# ">> \o BookCatalog["B3"].title

\* ------------------------------------------------------------------ C30
MainNoteWritten ==
    \E i \in 1..Len(hist.written) :
        hist.written[i].path =
            PathJoin(hist.lastBook.folder,
                     sanitizeFileName(BookCatalog[hist.lastBook.key].title) \o <<".md">>)

\* C30: a book counted in successCount had its main note written in the run,
\* also when the API key is cleared while the run is under way.
C30_CountedMeansWritten ==
    hist.lastBook.outcome = "ok" => MainNoteWritten
\* with no change of the settings during the run a counted book has its main
\* note written
CountedMeansWrittenWithoutUpdates ==
    (hist.lastBook.outcome = "ok" /\ hist.updates = 0) => MainNoteWritten
\* the run counted a book after the key was cleared and wrote nothing for it
CountedWithoutClient ==
    /\ hist.lastBook.outcome = "ok"
    /\ ~client
    /\ successCount >= 1
    /\ hist.written = <<>>
    /\ hist.lastBook.folder \notin DOMAIN vault

====
